---- MODULE Spec2Model ----
(***************************************************************************)
(* A model of the serenity-utils control plane:                            *)
(*   - RwFuture (crate/serenity-utils/src/lib.rs), the future-gated cell   *)
(*     built from a tokio RwLock and a tokio broadcast channel;            *)
(*   - handle_client (crate/serenity-utils-derive/src/lib.rs), the code    *)
(*     the ipc! macro generates to serve one IPC connection.               *)
(*   - listen (same file), the accept loop that awaits handle_client for   *)
(*     one connection after the other and reports its errors.              *)
(*   - send (same file), the client's round trip over one connection, and  *)
(*     the client functions generated on top of it.                        *)
(*   - Handler and Builder (crate/serenity-utils/src/handler/mod.rs and    *)
(*     builder.rs): callback lists, intents, and the ready event that      *)
(*     produces the cell's Context; the notifier Builder::task makes.      *)
(*   - voice_state_exporter (crate/serenity-utils/src/handler/             *)
(*     voice_state.rs): the map of voice channels to their users.          *)
(* Text is modelled as sequences of one-character strings.                 *)
(***************************************************************************)
EXTENDS Integers, Sequences, FiniteSets, TLC

\* ------------------------------------------------------------------ bounds

\* Number of tasks that call RwFuture::read / RwFuture::write directly.
NumProcs == 3

\* Number of those tasks that run in the fair specification.
NumFairProcs == 2

\* Number of distinct values the producer's future or a writer can store.
NumValues == 2

\* Number of lines one connection delivers before the model stops reading.
MaxLines == 2

\* Number of times the listener's incoming stream yields before the model stops
\* accepting.
MaxConns == 2

\* Largest number of characters in an argument a client sends.
MaxArgLen == 2

\* Number of callbacks the application registers.
MaxCallbacks == 2

\* Number of events serenity dispatches at the same time.
NumEventTasks == 2

\* ------------------------------------------------------------------- tasks

Procs == 1..NumProcs

FairProcs == 1..NumFairProcs

\* The task running handle_client (it calls ctx_fut.read()).
ConnTask == 0

\* The task spawned by RwFuture::new.
ProducerTask == NumProcs + 1

Tasks == Procs \cup {ConnTask, ProducerTask}

Accessors == Procs \cup {ConnTask}

Values == 1..NumValues

\* The cell holds no value while it is Pending.
NoValue == 0

\* No broadcast receiver (no rx in scope).
NoRx == -1

\* No task holds the write lock.
NoTask == -1

VARIABLES
    state,        \* RwFutureData discriminant: "Pending" or "Ready"
    value,        \* the T inside Ready, NoValue while Pending
    pc,           \* position of every task
    lockReaders,  \* tasks holding the RwLock for reading
    lockWriter,   \* task holding the RwLock for writing, or NoTask
    lockQueue,    \* FIFO of waiting lock requests
    chanTail,     \* number of messages the broadcast channel has accepted
    rx,           \* per task: next position its receiver reads, or NoRx
    prodValue,    \* output of the producer's future, until it is moved into the cell
    firstRead,    \* the value the first read() guard dereferenced to, NoValue before
    seen,         \* per task: the value its guard dereferences to, while it has one
    connPc,       \* position of handle_client
    buf,          \* handle_client's buf
    lastError,    \* handle_client's last_error
    args,         \* handle_client's args of the current command
    linesRead,    \* number of lines the connection has delivered
    tokenized,    \* number of inputs shlex::split accepted
    pendingReply, \* reply text computed by the command, not yet written
    replies,      \* texts written to the socket, in order
    handlerRuns,  \* command handler invocations, in order
    connResult,   \* value handle_client returned (or how it ended)
    readOutcome,  \* what the last lines.next() of handle_client yielded
    listenPc,     \* position of listen
    accepted,     \* number of items listener.next() has yielded
    notified,     \* calls of notify_thread_crash, in order (errors by their variant)
    sendPc,       \* position of the client's send
    sendCmd,      \* the cmd given to send
    wire,         \* text the client has written to its stream
    sendResult,   \* value send returned
    fnResult,     \* value the generated client function returned
    handlerSome,  \* Builder.handler is Some
    handler,      \* the Handler of the Builder, later of the client
    other,        \* a Handler the application builds to pass to event_handler
    builderIntents, \* Builder.intents
    ctxFutSome,   \* Builder.ctx_fut is Some
    runPc,        \* position of the bot: "building", "running" or "ended"
    clientIntents, \* the intents Builder::run gave to the ClientBuilder
    nextFn,       \* number of the next callback registration
    defaultIntents, \* GatewayIntents::default()
    ctxChan,      \* the oneshot channel of new_with_ctx
    ev,           \* per dispatch task: the event it handles and how far it is
    voiceStates,  \* the VoiceStates of the context's data, if any
    ignoredChannels, \* what M::ignored_channels returns
    exporterRun   \* the last run of a callback of voice_state_exporter: the event, its
                  \* user and new channel, the calls of M's methods, what it returned

cellVars == <<state, value, pc, lockReaders, lockWriter, lockQueue, chanTail, rx, prodValue, seen, firstRead>>

connVars == <<connPc, buf, lastError, args, linesRead, tokenized, pendingReply, replies, handlerRuns, connResult,
             readOutcome>>

listenVars == <<listenPc, accepted, notified>>

clientVars == <<sendPc, sendCmd, wire, sendResult>>

botVars == <<handlerSome, handler, other, builderIntents, ctxFutSome, runPc, clientIntents, nextFn,
            defaultIntents, ctxChan, ev>>

\* What surrounds the cell and handle_client: the listener, the client and the bot.
voiceVars == <<voiceStates, ignoredChannels, exporterRun>>

envVars == <<listenVars, clientVars, fnResult, botVars, voiceVars>>

vars == <<state, value, pc, lockReaders, lockWriter, lockQueue, chanTail, rx, prodValue, seen, firstRead,
          connPc, buf, lastError, args, linesRead, tokenized, pendingReply, replies, handlerRuns, connResult,
          readOutcome, listenPc, accepted, notified, sendPc, sendCmd, wire, sendResult, fnResult,
          handlerSome, handler, other, builderIntents, ctxFutSome, runPc, clientIntents, nextFn,
          defaultIntents, ctxChan, ev, voiceStates, ignoredChannels, exporterRun>>

\* ------------------------------------------------------- tokio::sync::RwLock

\* A lock request joins the FIFO wait queue (tokio's RwLock is fair).
Enqueue(t, mode) ==
    Append(lockQueue, [task |-> t, mode |-> mode])

CanGrantIgnoringReaders(mode) ==
    lockWriter = NoTask

\* A read lock needs no writer; a write lock needs no writer and no reader.
CanGrant(mode) ==
    IF mode = "read"
    THEN lockWriter = NoTask
    ELSE lockWriter = NoTask /\ lockReaders = {}

\* Position of a task once its queued lock request is granted.
AfterGrant(at) ==
    CASE at = "r_lock1" -> "r_check1"
      [] at = "r_lock2" -> "r_check2"
      [] at = "w_lock1" -> "w_check1"
      [] at = "w_lock2" -> "w_check2"
      [] at = "p_lock" -> "p_store"

\* The head of the queue acquires the lock: self.0.read().await / .write().await returns.
Grant(t) ==
    /\ lockQueue # <<>>
    /\ Head(lockQueue).task = t
    /\ CanGrant(Head(lockQueue).mode)
    /\ lockQueue' = Tail(lockQueue)
    /\ IF Head(lockQueue).mode = "read"
       THEN lockReaders' = lockReaders \cup {t} /\ lockWriter' = lockWriter
       ELSE lockWriter' = t /\ lockReaders' = lockReaders
    /\ pc' = [pc EXCEPT ![t] = AfterGrant(pc[t])]
    /\ UNCHANGED <<state, value, chanTail, rx, prodValue, seen>>
    /\ UNCHANGED <<connVars, envVars>>
    /\ UNCHANGED firstRead

\* Dropping a guard.
ReleasedReaders(t) == lockReaders \ {t}

ReleasedWriter(t) == IF lockWriter = t THEN NoTask ELSE lockWriter

\* ------------------------------------------------------------ RwFuture::new

\* A producer that notifies before it has stored the value.
ProducerFinishNotifyFirst(v) ==
    /\ pc[ProducerTask] = "running"
    /\ prodValue' = v
    /\ chanTail' = IF \E t \in Accessors : rx[t] # NoRx THEN chanTail + 1 ELSE chanTail
    /\ lockQueue' = Enqueue(ProducerTask, "write")
    /\ pc' = [pc EXCEPT ![ProducerTask] = "p_lock"]
    /\ UNCHANGED <<state, value, lockReaders, lockWriter, rx, seen>>
    /\ UNCHANGED <<connVars, envVars>>
    /\ UNCHANGED firstRead

\* fut.await completes with value v; the task then asks for the write lock.
ProducerFinish(v) ==
    /\ pc[ProducerTask] = "running"
    /\ prodValue' = v
    /\ lockQueue' = Enqueue(ProducerTask, "write")
    /\ pc' = [pc EXCEPT ![ProducerTask] = "p_lock"]
    /\ UNCHANGED <<state, value, lockReaders, lockWriter, chanTail, rx, seen>>
    /\ UNCHANGED <<connVars, envVars>>
    /\ UNCHANGED firstRead

\* fut panics (Handler::new_with_ctx: rx.await.expect): the task ends, nothing is stored.
ProducerFail ==
    /\ pc[ProducerTask] = "running"
    /\ pc' = [pc EXCEPT ![ProducerTask] = "failed"]
    /\ UNCHANGED <<state, value, lockReaders, lockWriter, lockQueue, chanTail, rx, prodValue, seen>>
    /\ UNCHANGED <<connVars, envVars>>
    /\ UNCHANGED firstRead

\* *data_clone.write().await = RwFutureData::Ready(value); the guard is a temporary.
ProducerStore ==
    /\ pc[ProducerTask] = "p_store"
    /\ state' = "Ready"
    /\ value' = prodValue
    /\ lockWriter' = ReleasedWriter(ProducerTask)
    /\ prodValue' = NoValue
    /\ pc' = [pc EXCEPT ![ProducerTask] = "p_send"]
    /\ UNCHANGED <<lockReaders, lockQueue, chanTail, rx, seen>>
    /\ UNCHANGED <<connVars, envVars>>
    /\ UNCHANGED firstRead

\* A producer that forgets the notification.
ProducerSendNothing ==
    /\ pc[ProducerTask] = "p_send"
    /\ pc' = [pc EXCEPT ![ProducerTask] = "done"]
    /\ UNCHANGED <<state, value, lockReaders, lockWriter, lockQueue, chanTail, rx, prodValue, seen>>
    /\ UNCHANGED <<connVars, envVars>>
    /\ UNCHANGED firstRead

\* A producer that runs its body again after notifying.
ProducerSendAndRestart ==
    /\ pc[ProducerTask] = "p_send"
    /\ chanTail' = IF \E t \in Accessors : rx[t] # NoRx THEN chanTail + 1 ELSE chanTail
    /\ pc' = [pc EXCEPT ![ProducerTask] = "running"]
    /\ UNCHANGED <<state, value, lockReaders, lockWriter, lockQueue, rx, prodValue, seen>>
    /\ UNCHANGED <<connVars, envVars>>
    /\ UNCHANGED firstRead

\* let _ = tx.send(()): the message is queued only if a receiver exists.
ProducerSend ==
    /\ pc[ProducerTask] = "p_send"
    /\ chanTail' = IF \E t \in Accessors : rx[t] # NoRx THEN chanTail + 1 ELSE chanTail
    /\ pc' = [pc EXCEPT ![ProducerTask] = "done"]
    /\ UNCHANGED <<state, value, lockReaders, lockWriter, lockQueue, rx, prodValue, seen>>
    /\ UNCHANGED <<connVars, envVars>>
    /\ UNCHANGED firstRead

\* A channel that counts only the producer task's Sender, not the clone kept in Pending.
ChannelClosedOnFailure ==
    pc[ProducerTask] \in {"done", "failed"}

\* Every Sender is gone: the clone inside Pending and the producer task's own.
ChannelClosed ==
    state = "Ready" /\ pc[ProducerTask] \in {"done", "failed"}

\* ----------------------------------------------------------- RwFuture::read

\* read() is entered: self.0.read().await queues for the lock.
ReadCallEffect(t) ==
    /\ pc[t] = "idle"
    /\ lockQueue' = Enqueue(t, "read")
    /\ pc' = [pc EXCEPT ![t] = "r_lock1"]
    /\ UNCHANGED <<state, value, lockReaders, lockWriter, chanTail, rx, prodValue, seen>>
    /\ UNCHANGED firstRead

ReadCall(t) ==
    /\ ReadCallEffect(t)
    /\ UNCHANGED <<connVars, envVars>>

\* A first check that hands out the guard whatever the state is.
ReadCheck1NoWait(t) ==
    /\ pc[t] = "r_check1"
    /\ pc' = [pc EXCEPT ![t] = "r_hold"]
    /\ seen' = [seen EXCEPT ![t] = value]
    /\ firstRead' = IF firstRead = NoValue THEN value ELSE firstRead
    /\ UNCHANGED <<state, value, lockReaders, lockWriter, lockQueue, chanTail, rx, prodValue>>
    /\ UNCHANGED <<connVars, envVars>>

\* A first check that subscribes and waits even when the cell is Ready.
ReadCheck1AlwaysSubscribe(t) ==
    /\ pc[t] = "r_check1"
    /\ rx' = [rx EXCEPT ![t] = chanTail]
    /\ lockReaders' = ReleasedReaders(t)
    /\ pc' = [pc EXCEPT ![t] = "r_recv"]
    /\ UNCHANGED <<state, value, lockWriter, lockQueue, chanTail, prodValue, seen>>
    /\ UNCHANGED <<connVars, envVars>>
    /\ UNCHANGED firstRead

\* match *data under the first read lock: Pending subscribes and drops the lock,
\* Ready returns the mapped guard.
ReadCheck1(t) ==
    /\ pc[t] = "r_check1"
    /\ IF state = "Pending"
       THEN /\ rx' = [rx EXCEPT ![t] = chanTail]
            /\ lockReaders' = ReleasedReaders(t)
            /\ pc' = [pc EXCEPT ![t] = "r_recv"]
            /\ seen' = seen
            /\ firstRead' = firstRead
       ELSE /\ pc' = [pc EXCEPT ![t] = "r_hold"]
            /\ seen' = [seen EXCEPT ![t] = value]
            /\ firstRead' = IF firstRead = NoValue THEN value ELSE firstRead
            /\ UNCHANGED <<rx, lockReaders>>
    /\ UNCHANGED <<state, value, lockWriter, lockQueue, chanTail, prodValue>>
    /\ UNCHANGED <<connVars, envVars>>

\* rx.recv().await.expect("RwFuture notifier dropped"): returns once a message
\* is there; panics if the channel is closed and empty.
ReadRecv(t) ==
    /\ pc[t] = "r_recv"
    /\ \/ /\ rx[t] < chanTail
          /\ rx' = [rx EXCEPT ![t] = rx[t] + 1]
          /\ lockQueue' = Enqueue(t, "read")
          /\ pc' = [pc EXCEPT ![t] = "r_lock2"]
       \/ /\ rx[t] >= chanTail
          /\ ChannelClosed
          /\ rx' = [rx EXCEPT ![t] = NoRx]
          /\ lockQueue' = lockQueue
          /\ pc' = [pc EXCEPT ![t] = "panicked"]
    /\ UNCHANGED <<state, value, lockReaders, lockWriter, chanTail, prodValue, seen>>
    /\ UNCHANGED <<connVars, envVars>>
    /\ UNCHANGED firstRead

\* match *data under the second read lock: Pending is the unreachable!() arm.
ReadCheck2(t) ==
    /\ pc[t] = "r_check2"
    /\ rx' = [rx EXCEPT ![t] = NoRx]
    /\ IF state = "Pending"
       THEN /\ pc' = [pc EXCEPT ![t] = "unreachable"]
            /\ lockReaders' = ReleasedReaders(t)
            /\ seen' = seen
            /\ firstRead' = firstRead
       ELSE /\ pc' = [pc EXCEPT ![t] = "r_hold"]
            /\ seen' = [seen EXCEPT ![t] = value]
            /\ firstRead' = IF firstRead = NoValue THEN value ELSE firstRead
            /\ lockReaders' = lockReaders
    /\ UNCHANGED <<state, value, lockWriter, lockQueue, chanTail, prodValue>>
    /\ UNCHANGED <<connVars, envVars>>

\* The RwLockReadGuard returned by read() is dropped.
ReadReleaseEffect(t) ==
    /\ pc[t] = "r_hold"
    /\ lockReaders' = ReleasedReaders(t)
    /\ pc' = [pc EXCEPT ![t] = "idle"]
    /\ seen' = [seen EXCEPT ![t] = NoValue]
    /\ UNCHANGED <<state, value, lockWriter, lockQueue, chanTail, rx, prodValue>>
    /\ UNCHANGED firstRead

ReadRelease(t) ==
    /\ ReadReleaseEffect(t)
    /\ UNCHANGED <<connVars, envVars>>

\* ---------------------------------------------------------- RwFuture::write

\* write() is entered: self.0.write().await queues for the lock.
WriteCall(t) ==
    /\ pc[t] = "idle"
    /\ lockQueue' = Enqueue(t, "write")
    /\ pc' = [pc EXCEPT ![t] = "w_lock1"]
    /\ UNCHANGED <<state, value, lockReaders, lockWriter, chanTail, rx, prodValue, seen>>
    /\ UNCHANGED <<connVars, envVars>>
    /\ UNCHANGED firstRead

\* match *data under the first write lock.
WriteCheck1(t) ==
    /\ pc[t] = "w_check1"
    /\ IF state = "Pending"
       THEN /\ rx' = [rx EXCEPT ![t] = chanTail]
            /\ lockWriter' = ReleasedWriter(t)
            /\ pc' = [pc EXCEPT ![t] = "w_recv"]
            /\ seen' = seen
       ELSE /\ pc' = [pc EXCEPT ![t] = "w_hold"]
            /\ seen' = [seen EXCEPT ![t] = value]
            /\ UNCHANGED <<rx, lockWriter>>
    /\ UNCHANGED <<state, value, lockReaders, lockQueue, chanTail, prodValue>>
    /\ UNCHANGED <<connVars, envVars>>
    /\ UNCHANGED firstRead

\* rx.recv().await.expect("RwFuture notifier dropped") in write().
WriteRecv(t) ==
    /\ pc[t] = "w_recv"
    /\ \/ /\ rx[t] < chanTail
          /\ rx' = [rx EXCEPT ![t] = rx[t] + 1]
          /\ lockQueue' = Enqueue(t, "write")
          /\ pc' = [pc EXCEPT ![t] = "w_lock2"]
       \/ /\ rx[t] >= chanTail
          /\ ChannelClosed
          /\ rx' = [rx EXCEPT ![t] = NoRx]
          /\ lockQueue' = lockQueue
          /\ pc' = [pc EXCEPT ![t] = "panicked"]
    /\ UNCHANGED <<state, value, lockReaders, lockWriter, chanTail, prodValue, seen>>
    /\ UNCHANGED <<connVars, envVars>>
    /\ UNCHANGED firstRead

\* match *data under the second write lock.
WriteCheck2(t) ==
    /\ pc[t] = "w_check2"
    /\ rx' = [rx EXCEPT ![t] = NoRx]
    /\ IF state = "Pending"
       THEN /\ pc' = [pc EXCEPT ![t] = "unreachable"]
            /\ lockWriter' = ReleasedWriter(t)
            /\ seen' = seen
       ELSE /\ pc' = [pc EXCEPT ![t] = "w_hold"]
            /\ seen' = [seen EXCEPT ![t] = value]
            /\ lockWriter' = lockWriter
    /\ UNCHANGED <<state, value, lockReaders, lockQueue, chanTail, prodValue>>
    /\ UNCHANGED <<connVars, envVars>>
    /\ UNCHANGED firstRead

\* An assignment that also goes through a read guard.
WriteMutateThroughReadGuard(t, v) ==
    /\ pc[t] \in {"w_hold", "r_hold"}
    /\ value # v
    /\ value' = v
    /\ seen' = [seen EXCEPT ![t] = v]
    /\ UNCHANGED <<state, pc, lockReaders, lockWriter, lockQueue, chanTail, rx, prodValue>>
    /\ UNCHANGED <<connVars, envVars>>
    /\ UNCHANGED firstRead

\* The holder assigns through the RwLockMappedWriteGuard (DerefMut to T).
WriteMutate(t, v) ==
    /\ pc[t] = "w_hold"
    /\ value # v
    /\ value' = v
    /\ seen' = [seen EXCEPT ![t] = v]
    /\ UNCHANGED <<state, pc, lockReaders, lockWriter, lockQueue, chanTail, rx, prodValue>>
    /\ UNCHANGED <<connVars, envVars>>
    /\ UNCHANGED firstRead

\* The RwLockMappedWriteGuard returned by write() is dropped.
WriteRelease(t) ==
    /\ pc[t] = "w_hold"
    /\ lockWriter' = ReleasedWriter(t)
    /\ pc' = [pc EXCEPT ![t] = "idle"]
    /\ seen' = [seen EXCEPT ![t] = NoValue]
    /\ UNCHANGED <<state, value, lockReaders, lockQueue, chanTail, rx, prodValue>>
    /\ UNCHANGED <<connVars, envVars>>
    /\ UNCHANGED firstRead

\* ------------------------------------------------------------------ Handler

\* The event categories for which Handler keeps a list of callbacks.
Categories ==
    {"ready", "guild_ban_addition", "guild_ban_removal", "guild_create", "guild_member_addition",
     "guild_member_removal", "guild_member_update", "guild_members_chunk", "message",
     "voice_state_update"}

\* The GatewayIntents flags the crate names.
IntentNames ==
    {"GUILDS", "GUILD_MEMBERS", "GUILD_BANS", "GUILD_PRESENCES", "GUILD_MESSAGES", "DIRECT_MESSAGES",
     "GUILD_VOICE_STATES"}

\* The values GatewayIntents::default() may have (it is defined by serenity).
DefaultIntentsChoices == {{}, IntentNames \ {"GUILD_MEMBERS", "GUILD_PRESENCES"}}

\* The flags the on_<cat> method ors into self.intents.
OnIntents(cat, require_members) ==
    CASE cat \in {"guild_ban_addition", "guild_ban_removal"} -> {"GUILD_BANS"}
      [] cat = "guild_create" ->
            IF require_members THEN {"GUILDS", "GUILD_PRESENCES"} ELSE {"GUILDS"}
      [] cat \in {"guild_member_addition", "guild_member_removal", "guild_member_update"} ->
            {"GUILD_MEMBERS"}
      [] cat = "message" -> {"GUILD_MESSAGES", "DIRECT_MESSAGES"}
      [] cat = "voice_state_update" -> {"GUILD_VOICE_STATES"}
      [] OTHER -> {}

\* Handler::default(): no sender, the default intents, no callbacks.
DefaultHandler ==
    [ctx_tx |-> FALSE, intents |-> defaultIntents, cb |-> [c \in Categories |-> <<>>]]

\* The Handler of Handler::new_with_ctx: ctx_tx holds the oneshot Sender.
NewWithCtx == [DefaultHandler EXCEPT !.ctx_tx = TRUE]

\* A merge that keeps only the other handler's intents.
MergeReplacesIntents(h, o) ==
    [h EXCEPT !.intents = o.intents,
              !.cb = [c \in Categories |-> h.cb[c] \o o.cb[c]]]

\* A merge that puts the other handler's callbacks first.
MergePrepends(h, o) ==
    [h EXCEPT !.intents = @ \cup o.intents,
              !.cb = [c \in Categories |-> o.cb[c] \o h.cb[c]]]

\* Handler::merge: every list is extended by the other's, intents are or-ed, the
\* other's ctx_tx is dropped.
Merge(h, o) ==
    [h EXCEPT !.intents = @ \cup o.intents,
              !.cb = [c \in Categories |-> h.cb[c] \o o.cb[c]]]

\* The on_<cat> method of Handler with callback f.
HandlerOn(h, cat, require_members, f) ==
    [h EXCEPT !.intents = @ \cup OnIntents(cat, require_members),
              !.cb[cat] = Append(@, f)]

\* The oneshot channel holds no value yet.
ChanEmpty == 0

\* The oneshot Sender was dropped without sending.
SenderDropped == -2

\* A dispatch task that handles no event. Of a task's event the model keeps the
\* category, the ctx of a ready event, the position in the method, the index of
\* the next callback, the calls made and the errors said to the ErrorNotifier.
IdleEvent == [cat |-> "none", ctx |-> NoValue, pc |-> "idle", idx |-> 0, log |-> <<>>, reported |-> <<>>]

\* The tasks serenity spawns to call the event handler's methods.
EventTasks == 1..NumEventTasks

\* Builder::new: no handler, no ctx_fut, empty intents; nothing runs.
InitBot ==
    /\ handlerSome = FALSE
    /\ handler = DefaultHandler
    /\ other = DefaultHandler
    /\ builderIntents = {}
    /\ ctxFutSome = FALSE
    /\ runPc = "building"
    /\ clientIntents = {}
    /\ nextFn = 1
    /\ ctxChan = ChanEmpty
    /\ ev = [s \in EventTasks |-> IdleEvent]

\* ------------------------------------------------------ voice_state_exporter

\* Number of users whose voice state changes.
NumUsers == 2

\* Number of voice channels of the guild.
NumChannels == 2

\* new.user_id
UserIds == 1..NumUsers

\* new.channel_id, if Some.
Channels == 1..NumChannels

\* new.channel_id is None.
NoChannel == 0

\* String's order on the user names of this model.
NameOrder == <<"a", "b">>

NameRank(name) == CHOOSE i \in 1..Len(NameOrder) : NameOrder[i] = name

\* The (name, discriminator) pairs users have.
UserKeys == { <<"a", 1>>, <<"b", 0>> }

\* What to_user returns: the user of an id, with its name and discriminator of
\* the moment.
Users == { [id |-> i, name |-> k[1], discriminator |-> k[2]] : i \in UserIds, k \in UserKeys }

\* (user.name.clone(), user.discriminator)
UserKey(user) == <<user.name, user.discriminator>>

\* An order that looks at the discriminator first.
KeyLessByDiscriminator(k1, k2) ==
    \/ k1[2] < k2[2]
    \/ k1[2] = k2[2] /\ NameRank(k1[1]) < NameRank(k2[1])

\* Ord of (String, u16): by name, then by discriminator.
KeyLess(k1, k2) ==
    \/ NameRank(k1[1]) < NameRank(k2[1])
    \/ k1[1] = k2[1] /\ k1[2] < k2[2]

\* users.binary_search_by_key(&key, ..) on the indices lo..hi (from 0, hi
\* excluded): Ok(idx) of an element with the key, or Err(idx) of the place to
\* insert it.
RECURSIVE BinarySearch(_, _, _, _)
BinarySearch(users, key, lo, hi) ==
    IF lo >= hi THEN [found |-> FALSE, idx |-> lo]
    ELSE LET mid == lo + ((hi - lo) \div 2)
             k == UserKey(users[mid + 1])
         IN  IF k = key THEN [found |-> TRUE, idx |-> mid]
             ELSE IF KeyLess(k, key)
             THEN BinarySearch(users, key, mid + 1, hi)
             ELSE BinarySearch(users, key, lo, mid)

\* match users.binary_search_by_key(..) { Ok(idx) => users[idx] = user,
\* Err(idx) => users.insert(idx, user) }
InsertUser(users, user) ==
    LET r == BinarySearch(users, UserKey(user), 0, Len(users)) IN
    IF r.found
    THEN [users EXCEPT ![r.idx + 1] = user]
    ELSE SubSeq(users, 1, r.idx) \o <<user>> \o SubSeq(users, r.idx + 1, Len(users))

\* users.retain(|iter_user| iter_user.id != user.id)
Retain(users, id) ==
    LET Other(u) == u.id # id IN SelectSeq(users, Other)

\* The retain loop over the channels, then the removal of the empty channels.
RemoveUser(chan_map, id) ==
    LET kept == {c \in DOMAIN chan_map : Retain(chan_map[c], id) # <<>>}
    IN  [c \in kept |-> Retain(chan_map[c], id)]

\* The entry of channel_id is made if there is none, and the user put into it.
\* (The channel's name, the other half of the entry, is left out.)
AddUser(chan_map, channel_id, user) ==
    [c \in DOMAIN chan_map \cup {channel_id} |->
        IF c = channel_id
        THEN InsertUser(IF c \in DOMAIN chan_map THEN chan_map[c] ELSE <<>>, user)
        ELSE chan_map[c]]

\* chan_map.iter().all(|(channel_id, (_, members))| members.is_empty() ||
\* ignored_channels.contains(channel_id))
AllEmpty(chan_map, ignored_channels) ==
    \A c \in DOMAIN chan_map : chan_map[c] = <<>> \/ c \in ignored_channels

\* The map on_guild_create builds from the first n entries of guild.voice_states,
\* in the order the iteration yields them.
RECURSIVE BuildMap(_, _)
BuildMap(members, n) ==
    IF n = 0 THEN <<>>
    ELSE LET chan_map == BuildMap(members, n - 1) IN
         IF members[n].channel_id = NoChannel THEN chan_map
         ELSE AddUser(chan_map, members[n].channel_id, members[n].user)

\* guild.voice_states in an order of iteration: one entry per user id.
GuildVoiceStates ==
    { m \in UNION { [1..n -> [user : Users, channel_id : Channels \cup {NoChannel}]] : n \in 0..NumUsers } :
        \A i, j \in 1..Len(m) : i # j => m[i].user.id # m[j].user.id }

\* The sets M::ignored_channels returns: the default, and one channel.
IgnoredChoices == { {}, {1} }

\* The data of the context has no VoiceStates yet.
NoVoiceStates == [present |-> FALSE, chan_map |-> <<>>]

\* No callback of the exporter has run.
NoRun == [event |-> "none", user_id |-> 0, channel_id |-> NoChannel, calls |-> <<>>, result |-> "none"]

\* M::dump_info(ctx, guild_id, voice_states)
DumpInfo(chan_map) == [method |-> "dump_info", voice_state |-> chan_map]

\* M::notify_start(ctx, user.id, guild_id, chan_id)
NotifyStart(user_id, channel_id) == [method |-> "notify_start", user_id |-> user_id, channel_id |-> channel_id]

InitVoiceStates ==
    /\ voiceStates = NoVoiceStates
    /\ exporterRun = NoRun

\* ------------------------------------------------------------ specification

InitCell ==
    /\ state = "Pending"
    /\ value = NoValue
    /\ pc = [t \in Tasks |-> IF t = ProducerTask THEN "running" ELSE "idle"]
    /\ lockReaders = {}
    /\ lockWriter = NoTask
    /\ lockQueue = <<>>
    /\ chanTail = 0
    /\ rx = [t \in Accessors |-> NoRx]
    /\ prodValue = NoValue
    /\ seen = [t \in Accessors |-> NoValue]
    /\ firstRead = NoValue

\* handle_client's locals when it is entered; nothing has been read or written.
InitConn ==
    /\ buf = <<>>
    /\ lastError = [kind |-> "Ok"]
    /\ args = <<>>
    /\ linesRead = 0
    /\ tokenized = 0
    /\ pendingReply = <<>>
    /\ replies = <<>>
    /\ handlerRuns = <<>>
    /\ connResult = [kind |-> "Running"]
    /\ readOutcome = "none"

\* No client has called send.
InitClient ==
    /\ sendPc = "idle"
    /\ sendCmd = <<>>
    /\ wire = <<>>
    /\ sendResult = [kind |-> "Running"]
    /\ fnResult = [kind |-> "Running"]

\* A cell just built by RwFuture::new, and handle_client just entered by listen
\* for its first connection.
Init ==
    /\ InitCell
    /\ InitConn
    /\ InitClient
    /\ defaultIntents = {}
    /\ InitBot
    /\ ignoredChannels = {}
    /\ InitVoiceStates
    /\ connPc = "reading"
    /\ listenPc = "serving"
    /\ accepted = 1
    /\ notified = <<>>

\* The producer task of RwFuture::new.
Producer ==
    \/ \E v \in Values : ProducerFinish(v)
    \/ ProducerFail
    \/ Grant(ProducerTask)
    \/ ProducerStore
    \/ ProducerSend

\* Tasks P calling read() and write() on clones of one RwFuture.
CellNext(P) ==
    \/ Producer
    \/ \E t \in P : ReadCall(t)
    \/ \E t \in P : Grant(t)
    \/ \E t \in P : ReadCheck1(t)
    \/ \E t \in P : ReadRecv(t)
    \/ \E t \in P : ReadCheck2(t)
    \/ \E t \in P : ReadRelease(t)
    \/ \E t \in P : WriteCall(t)
    \/ \E t \in P : WriteCheck1(t)
    \/ \E t \in P : WriteRecv(t)
    \/ \E t \in P : WriteCheck2(t)
    \/ \E t \in P, v \in Values : WriteMutate(t, v)
    \/ \E t \in P : WriteRelease(t)

NextCell == CellNext(Procs)

NextCellFair == CellNext(FairProcs)

SpecCell == Init /\ [][NextCell]_vars

\* ------------------------------------------------------------- shlex::split

Whitespace == {" ", "\t", "\n"}

\* Characters a backslash escapes inside double quotes (and the backquote, which
\* no text of this model contains).
DoubleEscapable == {"$", "\"", "\\"}

\* The lexer of shlex::split on text s from position i. mode is where the lexer
\* is: "skip" between words, "comment" after #, "word" in a word, "wesc" after a
\* backslash in a word, "single" / "double" in quotes, "desc" after a backslash in
\* double quotes. The result is None (ok = FALSE) when the text ends inside a
\* quote or after a backslash.
RECURSIVE ShlexScan(_, _, _, _, _)
ShlexScan(s, i, mode, word, words) ==
    IF i > Len(s)
    THEN CASE mode \in {"skip", "comment"} -> [ok |-> TRUE, args |-> words]
           [] mode = "word" -> [ok |-> TRUE, args |-> Append(words, word)]
           [] OTHER -> [ok |-> FALSE, args |-> <<>>]
    ELSE LET ch == s[i] IN
         CASE mode = "skip" ->
                IF ch \in Whitespace THEN ShlexScan(s, i + 1, "skip", <<>>, words)
                ELSE IF ch = "#" THEN ShlexScan(s, i + 1, "comment", <<>>, words)
                ELSE ShlexScan(s, i, "word", <<>>, words)
           [] mode = "comment" ->
                IF ch = "\n" THEN ShlexScan(s, i + 1, "skip", <<>>, words)
                ELSE ShlexScan(s, i + 1, "comment", <<>>, words)
           [] mode = "word" ->
                IF ch = "\"" THEN ShlexScan(s, i + 1, "double", word, words)
                ELSE IF ch = "'" THEN ShlexScan(s, i + 1, "single", word, words)
                ELSE IF ch = "\\" THEN ShlexScan(s, i + 1, "wesc", word, words)
                ELSE IF ch \in Whitespace THEN ShlexScan(s, i + 1, "skip", <<>>, Append(words, word))
                ELSE ShlexScan(s, i + 1, "word", Append(word, ch), words)
           [] mode = "wesc" ->
                IF ch = "\n" THEN ShlexScan(s, i + 1, "word", word, words)
                ELSE ShlexScan(s, i + 1, "word", Append(word, ch), words)
           [] mode = "single" ->
                IF ch = "'" THEN ShlexScan(s, i + 1, "word", word, words)
                ELSE ShlexScan(s, i + 1, "single", Append(word, ch), words)
           [] mode = "double" ->
                IF ch = "\"" THEN ShlexScan(s, i + 1, "word", word, words)
                ELSE IF ch = "\\" THEN ShlexScan(s, i + 1, "desc", word, words)
                ELSE ShlexScan(s, i + 1, "double", Append(word, ch), words)
           [] mode = "desc" ->
                IF ch = "\n" THEN ShlexScan(s, i + 1, "double", word, words)
                ELSE IF ch \in DoubleEscapable THEN ShlexScan(s, i + 1, "double", Append(word, ch), words)
                ELSE ShlexScan(s, i + 1, "double", word \o <<"\\", ch>>, words)

\* ::serenity_utils::shlex::split(&buf)
ShlexSplit(s) == ShlexScan(s, 1, "skip", <<>>, <<>>)

\* ------------------------------------------------------- the ipc! commands

\* The command functions given to ipc!, with the types of the arguments after
\* the context: p(), s_n(u64), g(String), d(u64, u64).
FnArgTypes ==
    (<<"p">> :> <<>>) @@ (<<"s", "_", "n">> :> <<"u64">>) @@ (<<"g">> :> <<"String">>)
        @@ (<<"d">> :> <<"u64", "u64">>)

CommandFns == DOMAIN FnArgTypes

\* fn_name.to_string().replace('_', "-")
CmdName(f) == [i \in 1..Len(f) |-> IF f[i] = "_" THEN "-" ELSE f[i]]

CmdNames == {CmdName(f) : f \in CommandFns}

\* The function whose match arm a first token selects.
FnOf(name) == CHOOSE f \in CommandFns : CmdName(f) = name

DigitValue(ch) ==
    CASE ch = "0" -> 0 [] ch = "1" -> 1 [] ch = "2" -> 2 [] ch = "3" -> 3 [] ch = "4" -> 4
      [] ch = "5" -> 5 [] ch = "6" -> 6 [] ch = "7" -> 7 [] ch = "8" -> 8 [] ch = "9" -> 9

IsDigit(ch) == ch \in {"0", "1", "2", "3", "4", "5", "6", "7", "8", "9"}

RECURSIVE DigitsValue(_)
DigitsValue(ds) ==
    IF ds = <<>> THEN 0
    ELSE 10 * DigitsValue(SubSeq(ds, 1, Len(ds) - 1)) + DigitValue(ds[Len(ds)])

\* str::parse::<T>() for the argument types in use; u64 accepts an optional +
\* and decimal digits (the tokens of this model are far below 2^64).
ParseArg(tok, type) ==
    IF type = "String" THEN [ok |-> TRUE, val |-> tok, msg |-> ""]
    ELSE LET ds == IF tok # <<>> /\ tok[1] = "+" THEN Tail(tok) ELSE tok IN
         IF tok = <<>> THEN [ok |-> FALSE, val |-> 0, msg |-> "cannot parse integer from empty string"]
         ELSE IF ds = <<>> \/ \E i \in 1..Len(ds) : ~IsDigit(ds[i])
         THEN [ok |-> FALSE, val |-> 0, msg |-> "invalid digit found in string"]
         ELSE [ok |-> TRUE, val |-> DigitsValue(ds), msg |-> ""]

\* The argument expressions of a command's call, evaluated left to right from
\* argument i: args[i] panics when the token is missing, a failed parse leaves
\* with Error::ArgParse through the ? operator.
RECURSIVE ParseArgs(_, _, _, _)
ParseArgs(tokens, types, i, vals) ==
    IF i > Len(types) THEN [kind |-> "Ok", vals |-> vals, msg |-> ""]
    ELSE IF i + 1 > Len(tokens) THEN [kind |-> "Panic", vals |-> vals, msg |-> ""]
    ELSE LET r == ParseArg(tokens[i + 1], types[i]) IN
         IF r.ok THEN ParseArgs(tokens, types, i + 1, Append(vals, r.val))
         ELSE [kind |-> "ArgParse", vals |-> vals, msg |-> r.msg]

\* What a command function returns: Ok(()) or Err(msg), msg printed with {}.
HandlerResults ==
    { [ok |-> TRUE, msg |-> <<>>],
      [ok |-> FALSE, msg |-> <<"e">>],
      [ok |-> FALSE, msg |-> <<"e", "\n", "f">>] }

\* A reply that names the command function instead of the command.
ReplyTextFnName(f, res) ==
    IF res.ok THEN Append(f, "\n") ELSE Append(res.msg, "\n")

\* A reply that acknowledges every success with the same word.
ReplyTextAck(f, res) ==
    IF res.ok THEN <<"o", "k", "\n">> ELSE Append(res.msg, "\n")

\* format!("{}\n", #cmd_names) and format!("{}\n", msg)
ReplyText(f, res) ==
    IF res.ok THEN Append(CmdName(f), "\n") ELSE Append(res.msg, "\n")

\* Lines a client sends (LinesStream strips the line break).
SampleLines ==
    { <<>>,
      <<" ">>,
      <<"p">>,
      <<"s", "-", "n", " ", "1">>,
      <<"s", "-", "n", " ", "x">>,
      <<"s", "-", "n">>,
      <<"x">>,
      <<"g", " ", "a">>,
      <<"g", " ", "'", "a">>,
      <<"b", "'">> }

\* ------------------------------------------------------------ handle_client

\* A read loop that skips a line naming no registered command.
ConnReadLineSkipsUnknown(line) ==
    /\ connPc = "reading"
    /\ linesRead < MaxLines
    /\ linesRead' = linesRead + 1
    /\ LET split == ShlexSplit(buf \o line) IN
       IF ~split.ok
       THEN /\ lastError' = [kind |-> "Shlex", line |-> line]
            /\ buf' = Append(buf \o line, "\n")
            /\ UNCHANGED <<connPc, args, tokenized, connResult>>
            /\ UNCHANGED cellVars
       ELSE /\ lastError' = [kind |-> "Ok"]
            /\ buf' = <<>>
            /\ args' = split.args
            /\ tokenized' = tokenized + 1
            /\ IF split.args = <<>>
               THEN /\ connPc' = "panicked"
                    /\ connResult' = [kind |-> "Panic"]
                    /\ UNCHANGED cellVars
               ELSE IF split.args[1] \in CmdNames
               THEN /\ connPc' = "ctx"
                    /\ connResult' = connResult
                    /\ ReadCallEffect(ConnTask)
               ELSE /\ UNCHANGED <<connPc, connResult>>
                    /\ UNCHANGED cellVars
    /\ readOutcome' = "line"
    /\ UNCHANGED <<pendingReply, replies, handlerRuns>>
    /\ UNCHANGED envVars

\* A read loop that forgets the buffered text when tokenization fails.
ConnReadLineDropsBuffer(line) ==
    /\ connPc = "reading"
    /\ linesRead < MaxLines
    /\ linesRead' = linesRead + 1
    /\ LET split == ShlexSplit(buf \o line) IN
       IF ~split.ok
       THEN /\ lastError' = [kind |-> "Shlex", line |-> line]
            /\ buf' = <<>>
            /\ UNCHANGED <<connPc, args, tokenized, connResult>>
            /\ UNCHANGED cellVars
       ELSE /\ lastError' = [kind |-> "Ok"]
            /\ buf' = <<>>
            /\ args' = split.args
            /\ tokenized' = tokenized + 1
            /\ IF split.args = <<>>
               THEN /\ connPc' = "panicked"
                    /\ connResult' = [kind |-> "Panic"]
                    /\ UNCHANGED cellVars
               ELSE IF split.args[1] \in CmdNames
               THEN /\ connPc' = "ctx"
                    /\ connResult' = connResult
                    /\ ReadCallEffect(ConnTask)
               ELSE /\ connPc' = "returned"
                    /\ connResult' = [kind |-> "UnknownCommand", args |-> split.args]
                    /\ UNCHANGED cellVars
    /\ readOutcome' = "line"
    /\ UNCHANGED <<pendingReply, replies, handlerRuns>>
    /\ UNCHANGED envVars

\* A read loop that keeps last_error when a later tokenization succeeds.
ConnReadLineKeepsError(line) ==
    /\ connPc = "reading"
    /\ linesRead < MaxLines
    /\ linesRead' = linesRead + 1
    /\ LET split == ShlexSplit(buf \o line) IN
       IF ~split.ok
       THEN /\ lastError' = [kind |-> "Shlex", line |-> line]
            /\ buf' = Append(buf \o line, "\n")
            /\ UNCHANGED <<connPc, args, tokenized, connResult>>
            /\ UNCHANGED cellVars
       ELSE /\ lastError' = lastError
            /\ buf' = <<>>
            /\ args' = split.args
            /\ tokenized' = tokenized + 1
            /\ IF split.args = <<>>
               THEN /\ connPc' = "panicked"
                    /\ connResult' = [kind |-> "Panic"]
                    /\ UNCHANGED cellVars
               ELSE IF split.args[1] \in CmdNames
               THEN /\ connPc' = "ctx"
                    /\ connResult' = connResult
                    /\ ReadCallEffect(ConnTask)
               ELSE /\ connPc' = "returned"
                    /\ connResult' = [kind |-> "UnknownCommand", args |-> split.args]
                    /\ UNCHANGED cellVars
    /\ readOutcome' = "line"
    /\ UNCHANGED <<pendingReply, replies, handlerRuns>>
    /\ UNCHANGED envVars

\* A successful tokenization that leaves the text in buf.
ConnReadLineKeepsBuffer(line) ==
    /\ connPc = "reading"
    /\ linesRead < MaxLines
    /\ linesRead' = linesRead + 1
    /\ LET split == ShlexSplit(buf \o line) IN
       IF ~split.ok
       THEN /\ lastError' = [kind |-> "Shlex", line |-> line]
            /\ buf' = Append(buf \o line, "\n")
            /\ UNCHANGED <<connPc, args, tokenized, connResult>>
            /\ UNCHANGED cellVars
       ELSE /\ lastError' = [kind |-> "Ok"]
            /\ buf' = buf \o line
            /\ args' = split.args
            /\ tokenized' = tokenized + 1
            /\ IF split.args = <<>>
               THEN /\ connPc' = "panicked"
                    /\ connResult' = [kind |-> "Panic"]
                    /\ UNCHANGED cellVars
               ELSE IF split.args[1] \in CmdNames
               THEN /\ connPc' = "ctx"
                    /\ connResult' = connResult
                    /\ ReadCallEffect(ConnTask)
               ELSE /\ connPc' = "returned"
                    /\ connResult' = [kind |-> "UnknownCommand", args |-> split.args]
                    /\ UNCHANGED cellVars
    /\ readOutcome' = "line"
    /\ UNCHANGED <<pendingReply, replies, handlerRuns>>
    /\ UNCHANGED envVars

\* An unknown command answered with a line of its own.
ConnReadLineRepliesUnknown(line) ==
    /\ connPc = "reading"
    /\ linesRead < MaxLines
    /\ linesRead' = linesRead + 1
    /\ LET split == ShlexSplit(buf \o line) IN
       IF ~split.ok
       THEN /\ lastError' = [kind |-> "Shlex", line |-> line]
            /\ buf' = Append(buf \o line, "\n")
            /\ UNCHANGED <<connPc, args, tokenized, connResult>>
            /\ UNCHANGED cellVars
       ELSE /\ lastError' = [kind |-> "Ok"]
            /\ buf' = <<>>
            /\ args' = split.args
            /\ tokenized' = tokenized + 1
            /\ IF split.args = <<>>
               THEN /\ connPc' = "panicked"
                    /\ connResult' = [kind |-> "Panic"]
                    /\ UNCHANGED cellVars
               ELSE IF split.args[1] \in CmdNames
               THEN /\ connPc' = "ctx"
                    /\ connResult' = connResult
                    /\ ReadCallEffect(ConnTask)
               ELSE /\ connPc' = "returned"
                    /\ connResult' = [kind |-> "UnknownCommand", args |-> split.args]
                    /\ UNCHANGED cellVars
    /\ readOutcome' = "line"
    /\ replies' = LET split == ShlexSplit(buf \o line) IN
                  IF split.ok /\ split.args # <<>> /\ split.args[1] \notin CmdNames
                  THEN Append(replies, <<"?", "\n">>)
                  ELSE replies
    /\ UNCHANGED <<pendingReply, handlerRuns>>
    /\ UNCHANGED envVars

\* A line arrives: it is appended to buf and buf is tokenized. A failure keeps
\* buf, with a line break, for the next line. A success clears buf; then
\* args[0] selects the command (it panics on an empty args), a registered name
\* starts ctx_fut.read(), any other name returns UnknownCommand.
ConnReadLine(line) ==
    /\ connPc = "reading"
    /\ linesRead < MaxLines
    /\ linesRead' = linesRead + 1
    /\ LET split == ShlexSplit(buf \o line) IN
       IF ~split.ok
       THEN /\ lastError' = [kind |-> "Shlex", line |-> line]
            /\ buf' = Append(buf \o line, "\n")
            /\ UNCHANGED <<connPc, args, tokenized, connResult>>
            /\ UNCHANGED cellVars
       ELSE /\ lastError' = [kind |-> "Ok"]
            /\ buf' = <<>>
            /\ args' = split.args
            /\ tokenized' = tokenized + 1
            /\ IF split.args = <<>>
               THEN /\ connPc' = "panicked"
                    /\ connResult' = [kind |-> "Panic"]
                    /\ UNCHANGED cellVars
               ELSE IF split.args[1] \in CmdNames
               THEN /\ connPc' = "ctx"
                    /\ connResult' = connResult
                    /\ ReadCallEffect(ConnTask)
               ELSE /\ connPc' = "returned"
                    /\ connResult' = [kind |-> "UnknownCommand", args |-> split.args]
                    /\ UNCHANGED cellVars
    /\ readOutcome' = "line"
    /\ UNCHANGED <<pendingReply, replies, handlerRuns>>
    /\ UNCHANGED envVars

\* lines.next() yields None: the loop ends and last_error is returned.
ConnEof ==
    /\ connPc = "reading"
    /\ connPc' = "returned"
    /\ connResult' = lastError
    /\ readOutcome' = "eof"
    /\ UNCHANGED <<buf, lastError, args, linesRead, tokenized, pendingReply, replies, handlerRuns>>
    /\ UNCHANGED envVars
    /\ UNCHANGED cellVars

\* A reset treated like any other read error.
ConnResetAsError ==
    /\ connPc = "reading"
    /\ connPc' = "returned"
    /\ connResult' = [kind |-> "Io"]
    /\ readOutcome' = "reset"
    /\ UNCHANGED <<buf, lastError, args, linesRead, tokenized, pendingReply, replies, handlerRuns>>
    /\ UNCHANGED envVars
    /\ UNCHANGED cellVars

\* The read fails with ConnectionReset: break, and last_error is returned.
ConnReset ==
    /\ connPc = "reading"
    /\ connPc' = "returned"
    /\ connResult' = lastError
    /\ readOutcome' = "reset"
    /\ UNCHANGED <<buf, lastError, args, linesRead, tokenized, pendingReply, replies, handlerRuns>>
    /\ UNCHANGED envVars
    /\ UNCHANGED cellVars

\* The read fails with another error: return Err(Error::Io(e)).
ConnReadError ==
    /\ connPc = "reading"
    /\ connPc' = "returned"
    /\ connResult' = [kind |-> "Io"]
    /\ readOutcome' = "error"
    /\ UNCHANGED <<buf, lastError, args, linesRead, tokenized, pendingReply, replies, handlerRuns>>
    /\ UNCHANGED envVars
    /\ UNCHANGED cellVars

\* Dropping ctx, the guard ctx_fut.read() returned.
DropCtx ==
    /\ lockReaders' = ReleasedReaders(ConnTask)
    /\ pc' = [pc EXCEPT ![ConnTask] = "idle"]
    /\ seen' = [seen EXCEPT ![ConnTask] = NoValue]
    /\ UNCHANGED <<state, value, lockWriter, lockQueue, chanTail, rx, prodValue, firstRead>>

\* A dispatch that reports a parse failure as the reply and keeps the connection.
ConnRunReportsParseFailure(res) ==
    /\ connPc = "ctx"
    /\ pc[ConnTask] = "r_hold"
    /\ LET f == FnOf(args[1])
           parsed == ParseArgs(args, FnArgTypes[f], 1, <<>>)
       IN  /\ pendingReply' = IF parsed.kind = "Ok" THEN ReplyText(f, res) ELSE <<"b", "a", "d", "\n">>
           /\ handlerRuns' = IF parsed.kind = "Ok"
                             THEN Append(handlerRuns, [fn |-> f, args |-> parsed.vals, res |-> res])
                             ELSE handlerRuns
           /\ connPc' = "replying"
    /\ UNCHANGED <<buf, lastError, args, linesRead, tokenized, replies, connResult, readOutcome>>
    /\ UNCHANGED envVars
    /\ UNCHANGED cellVars

\* A dispatch that goes back to reading before the reply is written.
ConnRunPipelined(res) ==
    /\ connPc = "ctx"
    /\ pc[ConnTask] = "r_hold"
    /\ LET f == FnOf(args[1])
           parsed == ParseArgs(args, FnArgTypes[f], 1, <<>>)
       IN  CASE parsed.kind = "Panic" ->
                  /\ connPc' = "panicked"
                  /\ connResult' = [kind |-> "Panic"]
                  /\ UNCHANGED <<pendingReply, handlerRuns>>
             [] parsed.kind = "ArgParse" ->
                  /\ connPc' = "returned"
                  /\ connResult' = [kind |-> "ArgParse", msg |-> parsed.msg]
                  /\ UNCHANGED <<pendingReply, handlerRuns>>
             [] OTHER ->
                  /\ handlerRuns' = Append(handlerRuns, [fn |-> f, args |-> parsed.vals, res |-> res])
                  /\ pendingReply' = ReplyText(f, res)
                  /\ connPc' = "reading"
                  /\ UNCHANGED connResult
    /\ DropCtx
    /\ UNCHANGED <<buf, lastError, args, linesRead, tokenized, replies, readOutcome>>
    /\ UNCHANGED envVars

\* A dispatch that calls the command function with the arguments parsed so
\* far before it returns the parse failure.
ConnRunCallsThenFails(res) ==
    /\ connPc = "ctx"
    /\ pc[ConnTask] = "r_hold"
    /\ LET f == FnOf(args[1])
           parsed == ParseArgs(args, FnArgTypes[f], 1, <<>>)
       IN  CASE parsed.kind = "Panic" ->
                  /\ connPc' = "panicked"
                  /\ connResult' = [kind |-> "Panic"]
                  /\ DropCtx
                  /\ UNCHANGED <<pendingReply, handlerRuns>>
             [] parsed.kind = "ArgParse" ->
                  /\ connPc' = "returned"
                  /\ connResult' = [kind |-> "ArgParse", msg |-> parsed.msg]
                  /\ handlerRuns' = Append(handlerRuns, [fn |-> f, args |-> parsed.vals, res |-> res])
                  /\ DropCtx
                  /\ UNCHANGED pendingReply
             [] OTHER ->
                  /\ handlerRuns' = Append(handlerRuns, [fn |-> f, args |-> parsed.vals, res |-> res])
                  /\ pendingReply' = ReplyText(f, res)
                  /\ connPc' = "replying"
                  /\ UNCHANGED connResult
                  /\ UNCHANGED cellVars
    /\ UNCHANGED <<buf, lastError, args, linesRead, tokenized, replies, readOutcome>>
    /\ UNCHANGED envVars

\* A dispatch that drops ctx as soon as the command function has returned.
ConnRunDropsCtxEarly(res) ==
    /\ connPc = "ctx"
    /\ pc[ConnTask] = "r_hold"
    /\ LET f == FnOf(args[1])
           parsed == ParseArgs(args, FnArgTypes[f], 1, <<>>)
       IN  CASE parsed.kind = "Panic" ->
                  /\ connPc' = "panicked"
                  /\ connResult' = [kind |-> "Panic"]
                  /\ DropCtx
                  /\ UNCHANGED <<pendingReply, handlerRuns>>
             [] parsed.kind = "ArgParse" ->
                  /\ connPc' = "returned"
                  /\ connResult' = [kind |-> "ArgParse", msg |-> parsed.msg]
                  /\ DropCtx
                  /\ UNCHANGED <<pendingReply, handlerRuns>>
             [] OTHER ->
                  /\ handlerRuns' = Append(handlerRuns, [fn |-> f, args |-> parsed.vals, res |-> res])
                  /\ pendingReply' = ReplyText(f, res)
                  /\ connPc' = "replying"
                  /\ UNCHANGED connResult
                  /\ DropCtx
    /\ UNCHANGED <<buf, lastError, args, linesRead, tokenized, replies, readOutcome>>
    /\ UNCHANGED envVars

\* ctx_fut.read() has returned ctx: the arguments are parsed and the command
\* function is called; res is what it returns.
ConnRun(res) ==
    /\ connPc = "ctx"
    /\ pc[ConnTask] = "r_hold"
    /\ LET f == FnOf(args[1])
           parsed == ParseArgs(args, FnArgTypes[f], 1, <<>>)
       IN  CASE parsed.kind = "Panic" ->
                  /\ connPc' = "panicked"
                  /\ connResult' = [kind |-> "Panic"]
                  /\ DropCtx
                  /\ UNCHANGED <<pendingReply, handlerRuns>>
             [] parsed.kind = "ArgParse" ->
                  /\ connPc' = "returned"
                  /\ connResult' = [kind |-> "ArgParse", msg |-> parsed.msg]
                  /\ DropCtx
                  /\ UNCHANGED <<pendingReply, handlerRuns>>
             [] OTHER ->
                  /\ handlerRuns' = Append(handlerRuns, [fn |-> f, args |-> parsed.vals, res |-> res])
                  /\ pendingReply' = ReplyText(f, res)
                  /\ connPc' = "replying"
                  /\ UNCHANGED connResult
                  /\ UNCHANGED cellVars
    /\ UNCHANGED <<buf, lastError, args, linesRead, tokenized, replies, readOutcome>>
    /\ UNCHANGED envVars

\* A reply written twice.
ConnReplyTwice ==
    /\ connPc = "replying"
    /\ replies' = replies \o <<pendingReply, pendingReply>>
    /\ pendingReply' = <<>>
    /\ args' = <<>>
    /\ connPc' = "reading"
    /\ DropCtx
    /\ UNCHANGED <<buf, lastError, linesRead, tokenized, handlerRuns, connResult, readOutcome>>
    /\ UNCHANGED envVars

\* writer.write_all(...).await succeeds; the match arm ends and ctx is dropped.
ConnReply ==
    /\ connPc = "replying"
    /\ replies' = Append(replies, pendingReply)
    /\ pendingReply' = <<>>
    /\ args' = <<>>
    /\ connPc' = "reading"
    /\ DropCtx
    /\ UNCHANGED <<buf, lastError, linesRead, tokenized, handlerRuns, connResult, readOutcome>>
    /\ UNCHANGED envVars

\* writer.write_all(...).await fails: ? returns Err(Error::Io(e)).
ConnReplyFails ==
    /\ connPc = "replying"
    /\ pendingReply' = <<>>
    /\ connPc' = "returned"
    /\ connResult' = [kind |-> "Io"]
    /\ DropCtx
    /\ UNCHANGED <<buf, lastError, args, linesRead, tokenized, replies, handlerRuns, readOutcome>>
    /\ UNCHANGED envVars

\* One connection served by handle_client while the producer runs; the
\* connection delivers lines out of Lines.
ConnNext(Lines) ==
    \/ Producer
    \/ Grant(ConnTask)
    \/ ReadCheck1(ConnTask)
    \/ ReadRecv(ConnTask)
    \/ ReadCheck2(ConnTask)
    \/ \E line \in Lines : ConnReadLine(line)
    \/ ConnEof
    \/ ConnReset
    \/ ConnReadError
    \/ \E res \in HandlerResults : ConnRun(res)
    \/ ConnReply
    \/ ConnReplyFails

NextConn == ConnNext(SampleLines)

SpecConn == Init /\ [][NextConn]_vars

\* ------------------------------------------------------------------- listen

\* ------------------------------------------------- commands with arguments

\* Lines whose commands take arguments: each argument position parses or fails.
ArgLines ==
    { <<"p">>,
      <<"s", "-", "n", " ", "1">>,
      <<"s", "-", "n", " ", "x">>,
      <<"g", " ", "a">>,
      <<"d", " ", "1", " ", "2">>,
      <<"d", " ", "x", " ", "2">>,
      <<"d", " ", "1", " ", "x">>,
      <<"d", " ", "1">> }

\* handle_client serving one connection that delivers lines out of ArgLines.
NextArgs == ConnNext(ArgLines)

SpecArgs == Init /\ [][NextArgs]_vars

\* notify_thread_crash(format!("IPC client"), Box::new(e), None)
ClientCrash(e) == [threadKind |-> "IPC client", e |-> e, autoRetry |-> "None"]

\* TcpListener::bind(addr()).await succeeds.
ListenBind ==
    /\ listenPc = "binding"
    /\ listenPc' = "accepting"
    /\ UNCHANGED <<accepted, notified>>
    /\ UNCHANGED <<cellVars, connVars, clientVars, fnResult, botVars, voiceVars>>

\* TcpListener::bind(addr()).await fails: ? returns the io::Error from listen.
ListenBindFails ==
    /\ listenPc = "binding"
    /\ listenPc' = "returned"
    /\ UNCHANGED <<accepted, notified>>
    /\ UNCHANGED <<cellVars, connVars, clientVars, fnResult, botVars, voiceVars>>

\* handle_client is entered: fresh locals, and the read loop starts.
ConnStart ==
    /\ connPc' = "reading"
    /\ buf' = <<>>
    /\ lastError' = [kind |-> "Ok"]
    /\ args' = <<>>
    /\ linesRead' = 0
    /\ tokenized' = 0
    /\ pendingReply' = <<>>
    /\ replies' = <<>>
    /\ handlerRuns' = <<>>
    /\ connResult' = [kind |-> "Running"]
    /\ readOutcome' = "none"

\* listener.next() yields a stream: handle_client is entered and awaited in
\* place, inside the accept loop.
ListenAccept ==
    /\ listenPc = "accepting"
    /\ accepted < MaxConns
    /\ accepted' = accepted + 1
    /\ listenPc' = "serving"
    /\ ConnStart
    /\ UNCHANGED notified
    /\ UNCHANGED <<cellVars, clientVars, fnResult, botVars, voiceVars>>

\* An accept loop that gives up on the first failed accept.
ListenAcceptFailsReturns ==
    /\ listenPc = "accepting"
    /\ accepted < MaxConns
    /\ accepted' = accepted + 1
    /\ notified' = Append(notified, ClientCrash("Io"))
    /\ listenPc' = "returned"
    /\ UNCHANGED <<cellVars, connVars, clientVars, fnResult, botVars, voiceVars>>

\* listener.next() yields an error: it is passed to notify_thread_crash and the
\* loop continues.
ListenAcceptFails ==
    /\ listenPc = "accepting"
    /\ accepted < MaxConns
    /\ accepted' = accepted + 1
    /\ notified' = Append(notified, ClientCrash("Io"))
    /\ UNCHANGED listenPc
    /\ UNCHANGED <<cellVars, connVars, clientVars, fnResult, botVars, voiceVars>>

\* An accept loop that drops the result of handle_client.
ListenClientDoneSilent ==
    /\ listenPc = "serving"
    /\ connPc = "returned"
    /\ listenPc' = "accepting"
    /\ UNCHANGED <<accepted, notified>>
    /\ UNCHANGED <<cellVars, connVars, clientVars, fnResult, botVars, voiceVars>>

\* handle_client has returned: an Err is passed to notify_thread_crash, and
\* the loop goes back to listener.next().
ListenClientDone ==
    /\ listenPc = "serving"
    /\ connPc = "returned"
    /\ notified' = IF connResult.kind = "Ok" THEN notified ELSE Append(notified, ClientCrash(connResult.kind))
    /\ listenPc' = "accepting"
    /\ UNCHANGED accepted
    /\ UNCHANGED <<cellVars, connVars, clientVars, fnResult, botVars, voiceVars>>

\* The IPC task of main: listen returned Err(e); the error is printed and passed
\* to notify_thread_crash(format!("IPC"), Box::new(e), None), and the task ends.
IpcTaskReport ==
    /\ listenPc = "returned"
    /\ listenPc' = "reported"
    /\ notified' = Append(notified, [threadKind |-> "IPC", e |-> "Io", autoRetry |-> "None"])
    /\ UNCHANGED accepted
    /\ UNCHANGED <<cellVars, connVars, clientVars, fnResult, botVars, voiceVars>>

\* Lines the clients of the listener send: blank, a command without arguments,
\* an unparseable and a missing argument, an unknown command, an open quote.
ListenLines ==
    { <<>>,
      <<"p">>,
      <<"s", "-", "n", " ", "x">>,
      <<"s", "-", "n">>,
      <<"x">>,
      <<"g", " ", "'", "a">> }

\* listen(ctx_fut, notify_thread_crash) has just been called; no connection yet.
InitListen ==
    /\ InitCell
    /\ InitConn
    /\ InitClient
    /\ defaultIntents = {}
    /\ InitBot
    /\ ignoredChannels = {}
    /\ InitVoiceStates
    /\ connPc = "none"
    /\ listenPc = "binding"
    /\ accepted = 0
    /\ notified = <<>>

\* listen serving connections one after the other while the producer runs.
NextListen ==
    \/ ListenBind
    \/ ListenBindFails
    \/ ListenAccept
    \/ ListenAcceptFails
    \/ ListenClientDone
    \/ IpcTaskReport
    \/ ConnNext(ListenLines)

SpecListen == InitListen /\ [][NextListen]_vars

\* ------------------------------------- listen with the notifier of Builder::task

\* listen is awaiting the future the notifier of Builder::task returned.
Notifying == {"notifying_accept", "notifying_client"}

\* listener.next() yields an error: the notifier is called and awaited; its
\* first step is ctx_fut.read().
ListenAcceptFailsNotify ==
    /\ listenPc = "accepting"
    /\ accepted < MaxConns
    /\ accepted' = accepted + 1
    /\ listenPc' = "notifying_accept"
    /\ ReadCallEffect(ConnTask)
    /\ UNCHANGED notified
    /\ UNCHANGED <<connVars, clientVars, fnResult, botVars, voiceVars>>

\* handle_client has returned Err(e): the notifier is called and awaited; its
\* first step is ctx_fut.read().
ListenClientFailsNotify ==
    /\ listenPc = "serving"
    /\ connPc = "returned"
    /\ connResult.kind # "Ok"
    /\ listenPc' = "notifying_client"
    /\ ReadCallEffect(ConnTask)
    /\ UNCHANGED <<accepted, notified>>
    /\ UNCHANGED <<connVars, clientVars, fnResult, botVars, voiceVars>>

\* A notifier that reports while its read() still waits for the channel.
NotifierSayWhilePending ==
    /\ listenPc \in Notifying
    /\ pc[ConnTask] \in {"r_hold", "r_recv"}
    /\ notified' = Append(notified, ClientCrash(IF listenPc = "notifying_accept" THEN "Io" ELSE connResult.kind))
    /\ DropCtx
    /\ listenPc' = "accepting"
    /\ UNCHANGED accepted
    /\ UNCHANGED <<connVars, clientVars, fnResult, botVars, voiceVars>>

\* The notifier has ctx: error_notifier.say(&*ctx, ..) succeeds, ctx is dropped,
\* and the accept loop goes on.
NotifierSay ==
    /\ listenPc \in Notifying
    /\ pc[ConnTask] = "r_hold"
    /\ notified' = Append(notified, ClientCrash(IF listenPc = "notifying_accept" THEN "Io" ELSE connResult.kind))
    /\ DropCtx
    /\ listenPc' = "accepting"
    /\ UNCHANGED accepted
    /\ UNCHANGED <<connVars, clientVars, fnResult, botVars, voiceVars>>

\* The notifier has ctx: error_notifier.say fails, and expect panics in the
\* task that runs listen.
NotifierSayFails ==
    /\ listenPc \in Notifying
    /\ pc[ConnTask] = "r_hold"
    /\ DropCtx
    /\ listenPc' = "panicked"
    /\ UNCHANGED <<accepted, notified>>
    /\ UNCHANGED <<connVars, clientVars, fnResult, botVars, voiceVars>>

\* Lines of the clients: a known and an unknown command.
NotifyLines == { <<"p">>, <<"x">> }

\* listen has bound its port; its notifier is the one Builder::task made.
InitNotify ==
    /\ InitCell
    /\ InitConn
    /\ InitClient
    /\ defaultIntents = {}
    /\ InitBot
    /\ ignoredChannels = {}
    /\ InitVoiceStates
    /\ connPc = "none"
    /\ listenPc = "accepting"
    /\ accepted = 0
    /\ notified = <<>>

\* The accept loop with the notifier of Builder::task while the producer runs.
NextNotify ==
    \/ ListenAccept
    \/ ListenAcceptFailsNotify
    \/ connResult.kind = "Ok" /\ ListenClientDone
    \/ ListenClientFailsNotify
    \/ NotifierSay
    \/ NotifierSayFails
    \/ ConnNext(NotifyLines)

SpecNotify == InitNotify /\ [][NextNotify]_vars

\* --------------------------------------------------------------------- send

\* Characters shlex::quote wraps an argument in double quotes for (and the
\* backquote, which no text of this model contains).
NeedsQuote ==
    {"|", "&", ";", "<", ">", "(", ")", "$", "\\", "\"", "'", " ", "\t", "\r", "\n",
     "*", "?", "[", "#", "~", "=", "%"}

RECURSIVE QuoteBody(_)
QuoteBody(text) ==
    IF text = <<>> THEN <<>>
    ELSE (IF Head(text) \in DoubleEscapable THEN <<"\\", Head(text)>> ELSE <<Head(text)>>)
         \o QuoteBody(Tail(text))

\* ::serenity_utils::shlex::quote(&arg.to_string())
ShlexQuote(arg) ==
    IF arg = <<>> THEN <<"\"", "\"">>
    ELSE IF \E i \in 1..Len(arg) : arg[i] \in NeedsQuote
    THEN <<"\"">> \o QuoteBody(arg) \o <<"\"">>
    ELSE arg

\* .collect::<Vec<_>>().join(" ")
RECURSIVE JoinQuoted(_)
JoinQuoted(cmd) ==
    IF cmd = <<>> THEN <<>>
    ELSE IF Len(cmd) = 1 THEN ShlexQuote(cmd[1])
    ELSE ShlexQuote(cmd[1]) \o <<" ">> \o JoinQuoted(Tail(cmd))

\* writeln!(&mut stream, "{}", ...)
WireText(cmd) == Append(JoinQuoted(cmd), "\n")

\* The lines LinesStream yields for a text: each ends at a line break, which is
\* removed together with a carriage return right before it; text after the last
\* line break is a line of its own.
RECURSIVE LinesOf(_, _, _)
LinesOf(text, i, cur) ==
    IF i > Len(text) THEN (IF cur = <<>> THEN <<>> ELSE <<cur>>)
    ELSE IF text[i] = "\n"
    THEN <<IF cur # <<>> /\ cur[Len(cur)] = "\r" THEN SubSeq(cur, 1, Len(cur) - 1) ELSE cur>>
         \o LinesOf(text, i + 1, <<>>)
    ELSE LinesOf(text, i + 1, Append(cur, text[i]))

WireLines == LinesOf(wire, 1, <<>>)

\* All the text handle_client has written to the stream.
RECURSIVE Concat(_)
Concat(texts) == IF texts = <<>> THEN <<>> ELSE Head(texts) \o Concat(Tail(texts))

\* BufRead::read_line: the text up to and including the first line break, or
\* all of it when there is none.
RECURSIVE FirstLine(_)
FirstLine(text) ==
    IF text = <<>> THEN <<>>
    ELSE IF Head(text) = "\n" THEN <<"\n">>
    ELSE <<Head(text)>> \o FirstLine(Tail(text))

\* Characters of the arguments clients send.
ArgChars == {"a", " ", "'", "\"", "\\", "\n", "\r"}

\* Texts of at most n characters.
RECURSIVE TextsUpTo(_)
TextsUpTo(n) ==
    IF n = 0 THEN {<<>>}
    ELSE TextsUpTo(n - 1) \cup {Append(t, ch) : t \in TextsUpTo(n - 1), ch \in ArgChars}

\* The cmd vectors given to send (the generated client functions and main always
\* put a name first): each command alone, an unknown command, s-n with a number
\* and with a letter, and g with every text of at most MaxArgLen characters.
SendCmds ==
    {<<n>> : n \in CmdNames \cup {<<"x">>}}
    \cup {<<CmdName(<<"s", "_", "n">>), a>> : a \in {<<"1">>, <<"a">>}}
    \cup {<<<<"g">>, a>> : a \in TextsUpTo(MaxArgLen)}

\* send is called: TcpStream::connect(addr()) succeeds.
SendConnect(cmd) ==
    /\ sendPc = "idle"
    /\ listenPc = "accepting"
    /\ sendPc' = "connected"
    /\ sendCmd' = cmd
    /\ UNCHANGED <<wire, sendResult>>
    /\ UNCHANGED <<cellVars, connVars, listenVars, fnResult, botVars, voiceVars>>

\* send is called: TcpStream::connect(addr()) fails, ? returns Error::Io.
SendConnectFails(cmd) ==
    /\ sendPc = "idle"
    /\ sendPc' = "done"
    /\ sendCmd' = cmd
    /\ sendResult' = [kind |-> "Io"]
    /\ UNCHANGED wire
    /\ UNCHANGED <<cellVars, connVars, listenVars, fnResult, botVars, voiceVars>>

\* writeln! puts the quoted arguments and a line break on the stream.
SendWrite ==
    /\ sendPc = "connected"
    /\ wire' = WireText(sendCmd)
    /\ sendPc' = "reading"
    /\ UNCHANGED <<sendCmd, sendResult>>
    /\ UNCHANGED <<cellVars, connVars, listenVars, fnResult, botVars, voiceVars>>

\* writeln! fails: ? returns Error::Io and the stream is dropped.
SendWriteFails ==
    /\ sendPc = "connected"
    /\ sendPc' = "done"
    /\ sendResult' = [kind |-> "Io"]
    /\ UNCHANGED <<sendCmd, wire>>
    /\ UNCHANGED <<cellVars, connVars, listenVars, fnResult, botVars, voiceVars>>

\* The server's end of the stream is closed: handle_client has ended.
ServerClosed == connPc \in {"returned", "panicked"}

\* A read that returns the line with its line break.
SendReadReplyKeepsNewline ==
    /\ sendPc = "reading"
    /\ LET stream == Concat(replies)
           line == FirstLine(stream)
       IN  /\ (line # <<>> /\ line[Len(line)] = "\n") \/ ServerClosed
           /\ sendResult' =
                IF line # <<>> /\ line[Len(line)] = "\n"
                THEN [kind |-> "Ok", reply |-> line]
                ELSE [kind |-> "MissingNewline"]
    /\ sendPc' = "done"
    /\ UNCHANGED <<sendCmd, wire>>
    /\ UNCHANGED <<cellVars, connVars, listenVars, fnResult, botVars, voiceVars>>

\* read_line returns, with a whole line or at the end of the stream; the last
\* character is popped and must be a line break.
SendReadReply ==
    /\ sendPc = "reading"
    /\ LET stream == Concat(replies)
           line == FirstLine(stream)
       IN  /\ (line # <<>> /\ line[Len(line)] = "\n") \/ ServerClosed
           /\ sendResult' =
                IF line # <<>> /\ line[Len(line)] = "\n"
                THEN [kind |-> "Ok", reply |-> SubSeq(line, 1, Len(line) - 1)]
                ELSE [kind |-> "MissingNewline"]
    /\ sendPc' = "done"
    /\ UNCHANGED <<sendCmd, wire>>
    /\ UNCHANGED <<cellVars, connVars, listenVars, fnResult, botVars, voiceVars>>

\* read_line fails: ? returns Error::Io.
SendReadFails ==
    /\ sendPc = "reading"
    /\ sendPc' = "done"
    /\ sendResult' = [kind |-> "Io"]
    /\ UNCHANGED <<sendCmd, wire>>
    /\ UNCHANGED <<cellVars, connVars, listenVars, fnResult, botVars, voiceVars>>

\* A client function that expects the name of the command function as the reply.
ClientFnExpectsFnName(f, sent) ==
    IF sent.kind # "Ok" THEN sent
    ELSE IF sent.reply # f
         THEN [kind |-> "WrongReply", received |-> sent.reply, expected |-> f]
         ELSE [kind |-> "OkUnit"]

\* The generated client function of command function f, given what its call of
\* send returned: ? passes an error of send on; a reply other than the command
\* name is Err(WrongReply { received, expected }); otherwise Ok(()).
ClientFn(f, sent) ==
    IF sent.kind # "Ok" THEN sent
    ELSE IF sent.reply # CmdName(f)
         THEN [kind |-> "WrongReply", received |-> sent.reply, expected |-> CmdName(f)]
         ELSE [kind |-> "OkUnit"]

\* The generated client function returns, after its call of send has returned.
ClientFnReturn ==
    /\ sendPc = "done"
    /\ fnResult.kind = "Running"
    /\ sendCmd[1] \in CmdNames
    /\ fnResult' = ClientFn(FnOf(sendCmd[1]), sendResult)
    /\ UNCHANGED clientVars
    /\ UNCHANGED <<cellVars, connVars, listenVars, botVars, voiceVars>>

\* A listener that has bound its port; no client yet.
InitSend ==
    /\ InitCell
    /\ InitConn
    /\ InitClient
    /\ defaultIntents = {}
    /\ InitBot
    /\ ignoredChannels = {}
    /\ InitVoiceStates
    /\ connPc = "none"
    /\ listenPc = "accepting"
    /\ accepted = 0
    /\ notified = <<>>

\* One client calling send against the listener: the connection is accepted
\* once the client has connected, handle_client reads the lines the client wrote
\* and sees the end of the stream once send has returned.
NextSend ==
    \/ Producer
    \/ sendPc = "idle" /\ \E cmd \in SendCmds : SendConnect(cmd)
    \/ sendPc = "idle" /\ \E cmd \in SendCmds : SendConnectFails(cmd)
    \/ SendWrite
    \/ SendWriteFails
    \/ SendReadReply
    \/ SendReadFails
    \/ ClientFnReturn
    \/ sendPc # "idle" /\ connPc = "none" /\ ListenAccept
    \/ linesRead < Len(WireLines) /\ ConnReadLine(WireLines[linesRead + 1])
    \/ sendPc = "done" /\ linesRead = Len(WireLines) /\ ConnEof
    \/ Grant(ConnTask)
    \/ ReadCheck1(ConnTask)
    \/ ReadRecv(ConnTask)
    \/ ReadCheck2(ConnTask)
    \/ \E res \in HandlerResults : ConnRun(res)
    \/ ConnReply
    \/ ListenClientDone

SpecSend == InitSend /\ [][NextSend]_vars

\* ------------------------------------------- connection and a writer task

\* The other task that holds a clone of the connection's RwFuture.
SharerProcs == {1}

\* Lines of the connection served while the other task reads and writes.
SharedLines == {<<"p">>, <<"x">>}

\* handle_client serving one connection while another task calls read() and
\* write() on a clone of the same cell.
NextShared ==
    \/ ConnNext(SharedLines)
    \/ CellNext(SharerProcs)

SpecShared == Init /\ [][NextShared]_vars

\* ------------------------------------------------------------------ Builder

\* The Handler edit_handler hands to its closure: the builder's, or a new one
\* from Handler::new_with_ctx.
EditedHandler == IF handlerSome THEN handler ELSE NewWithCtx

\* HandlerMethods for Builder: on_<cat>(f) through edit_handler.
BuilderOn(cat, require_members) ==
    /\ runPc = "building"
    /\ nextFn <= MaxCallbacks
    /\ handler' = HandlerOn(EditedHandler, cat, require_members, nextFn)
    /\ handlerSome' = TRUE
    /\ ctxFutSome' = TRUE
    /\ nextFn' = nextFn + 1
    /\ UNCHANGED <<other, builderIntents, runPc, clientIntents, defaultIntents, ctxChan, ev>>
    /\ UNCHANGED <<cellVars, connVars, listenVars, clientVars, fnResult, voiceVars>>

\* The application calls on_<cat>(f) on a Handler of its own.
OtherOn(cat, require_members) ==
    /\ runPc = "building"
    /\ nextFn <= MaxCallbacks
    /\ other' = HandlerOn(other, cat, require_members, nextFn)
    /\ nextFn' = nextFn + 1
    /\ UNCHANGED <<handlerSome, handler, builderIntents, ctxFutSome, runPc, clientIntents, defaultIntents,
                   ctxChan, ev>>
    /\ UNCHANGED <<cellVars, connVars, listenVars, clientVars, fnResult, voiceVars>>

\* Builder::event_handler(other): merged into the builder's handler through
\* edit_handler; the application goes on with a new Handler::default().
BuilderEventHandler ==
    /\ runPc = "building"
    /\ handler' = Merge(EditedHandler, other)
    /\ handlerSome' = TRUE
    /\ ctxFutSome' = TRUE
    /\ other' = DefaultHandler
    /\ UNCHANGED <<builderIntents, runPc, clientIntents, nextFn, defaultIntents, ctxChan, ev>>
    /\ UNCHANGED <<cellVars, connVars, listenVars, clientVars, fnResult, voiceVars>>

\* Builder::commands.
BuilderCommands ==
    /\ runPc = "building"
    /\ builderIntents' = builderIntents \cup {"DIRECT_MESSAGES", "GUILD_MESSAGES"}
    /\ UNCHANGED <<handlerSome, handler, other, ctxFutSome, runPc, clientIntents, nextFn, defaultIntents,
                   ctxChan, ev>>
    /\ UNCHANGED <<cellVars, connVars, listenVars, clientVars, fnResult, voiceVars>>

\* The intents Builder::run passes to ClientBuilder::intents.
RunIntents == builderIntents \cup (IF handlerSome THEN handler.intents ELSE {})

\* Builder::run up to the start of the client: the handler's intents are or-ed
\* into the builder's, the handler becomes the client's event handler.
BuilderRun ==
    /\ runPc = "building"
    /\ builderIntents' = RunIntents
    /\ clientIntents' = RunIntents
    /\ runPc' = "running"
    /\ UNCHANGED <<handlerSome, handler, other, ctxFutSome, nextFn, defaultIntents, ctxChan, ev>>
    /\ UNCHANGED <<cellVars, connVars, listenVars, clientVars, fnResult, voiceVars>>

\* The Handler is dropped: a Sender still in ctx_tx is dropped with it.
HandlerDropped ==
    /\ ctxChan' = IF handlerSome /\ handler.ctx_tx THEN SenderDropped ELSE ctxChan
    /\ handler' = [handler EXCEPT !.ctx_tx = FALSE]

\* Builder::run: building the client fails (.await?), run returns the error.
BuilderRunFails ==
    /\ runPc = "building"
    /\ builderIntents' = RunIntents
    /\ runPc' = "ended"
    /\ HandlerDropped
    /\ UNCHANGED <<handlerSome, other, ctxFutSome, clientIntents, nextFn, defaultIntents, ev>>
    /\ UNCHANGED <<cellVars, connVars, listenVars, clientVars, fnResult, voiceVars>>

\* client.start_autosharded() returns and run ends, once no event is being
\* handled (the dispatch tasks share the handler).
ClientEnds ==
    /\ runPc = "running"
    /\ \A s \in EventTasks : ev[s].pc = "idle"
    /\ runPc' = "ended"
    /\ HandlerDropped
    /\ UNCHANGED <<handlerSome, other, builderIntents, ctxFutSome, clientIntents, nextFn, defaultIntents, ev>>
    /\ UNCHANGED <<cellVars, connVars, listenVars, clientVars, fnResult, voiceVars>>

\* ------------------------------------------------------------ EventHandler

\* Task s is free to handle the next event of a running client.
CanDispatch(s) ==
    /\ runPc = "running"
    /\ handlerSome
    /\ ev[s].pc = "idle"

\* A ready that sends the context without taking the Sender out of ctx_tx.
ReadyStartKeepsSender(s, ctx) ==
    /\ CanDispatch(s)
    /\ ctxChan' = ctx
    /\ UNCHANGED handler
    /\ ev' = [ev EXCEPT ![s] = [IdleEvent EXCEPT !.cat = "ready", !.ctx = ctx, !.pc = "guilds",
                                                 !.idx = 1]]
    /\ UNCHANGED <<handlerSome, other, builderIntents, ctxFutSome, runPc, clientIntents, nextFn, defaultIntents>>
    /\ UNCHANGED <<cellVars, connVars, listenVars, clientVars, fnResult, voiceVars>>

\* Handler::ready, first statement: ctx_tx.lock().await.take(), and if it held
\* the Sender, tx.send(ctx.clone()).
ReadyStart(s, ctx) ==
    /\ CanDispatch(s)
    /\ IF handler.ctx_tx
       THEN /\ ctxChan' = ctx
            /\ handler' = [handler EXCEPT !.ctx_tx = FALSE]
       ELSE UNCHANGED <<ctxChan, handler>>
    /\ ev' = [ev EXCEPT ![s] = [IdleEvent EXCEPT !.cat = "ready", !.ctx = ctx, !.pc = "guilds",
                                                 !.idx = 1]]
    /\ UNCHANGED <<handlerSome, other, builderIntents, ctxFutSome, runPc, clientIntents, nextFn, defaultIntents>>
    /\ UNCHANGED <<cellVars, connVars, listenVars, clientVars, fnResult, voiceVars>>

\* Handler::ready: data_about_bot.user.guilds(&ctx).await.expect(...) panics
\* and ends the task on Err; with no guild the invite URL is printed and
\* shut_down is called; then the callbacks.
ReadyGuilds(s, outcome) ==
    /\ ev[s].pc = "guilds"
    /\ ev' = [ev EXCEPT ![s] = IF outcome = "Err" THEN IdleEvent ELSE [@ EXCEPT !.pc = "loop"]]
    /\ UNCHANGED <<handlerSome, handler, other, builderIntents, ctxFutSome, runPc, clientIntents, nextFn,
                   defaultIntents, ctxChan>>
    /\ UNCHANGED <<cellVars, connVars, listenVars, clientVars, fnResult, voiceVars>>

\* An event of another category arrives: guild_create sets up the slash
\* commands first, the others go to their callbacks.
EventStart(s, cat) ==
    /\ CanDispatch(s)
    /\ cat # "ready"
    /\ ev' = [ev EXCEPT ![s] = [IdleEvent EXCEPT !.cat = cat,
                                                 !.pc = IF cat = "guild_create" THEN "slash" ELSE "loop",
                                                 !.idx = 1]]
    /\ UNCHANGED <<handlerSome, handler, other, builderIntents, ctxFutSome, runPc, clientIntents, nextFn,
                   defaultIntents, ctxChan>>
    /\ UNCHANGED <<cellVars, connVars, listenVars, clientVars, fnResult, voiceVars>>

\* Handler::guild_create: setup_slash_commands; its error goes to the ErrorNotifier.
GuildCreateSlash(s, ok) ==
    /\ ev[s].pc = "slash"
    /\ ev' = [ev EXCEPT ![s].pc = "loop",
                        ![s].reported = IF ok THEN @ ELSE Append(@, "slash commands")]
    /\ UNCHANGED <<handlerSome, handler, other, builderIntents, ctxFutSome, runPc, clientIntents, nextFn,
                   defaultIntents, ctxChan>>
    /\ UNCHANGED <<cellVars, connVars, listenVars, clientVars, fnResult, voiceVars>>

\* for f in &self.<cat>: f(&ctx, ...) is called.
CallbackStart(s) ==
    /\ ev[s].pc = "loop"
    /\ ev[s].idx <= Len(handler.cb[ev[s].cat])
    /\ ev' = [ev EXCEPT ![s].pc = "calling",
                        ![s].log = Append(@, [op |-> "start", f |-> handler.cb[ev[s].cat][ev[s].idx]])]
    /\ UNCHANGED <<handlerSome, handler, other, builderIntents, ctxFutSome, runPc, clientIntents, nextFn,
                   defaultIntents, ctxChan>>
    /\ UNCHANGED <<cellVars, connVars, listenVars, clientVars, fnResult, voiceVars>>

\* A loop that ends at the first callback that returns Err.
CallbackFinishStopsOnError(s, ok) ==
    /\ ev[s].pc = "calling"
    /\ LET f == handler.cb[ev[s].cat][ev[s].idx] IN
       ev' = [ev EXCEPT ![s].pc = "loop",
                        ![s].idx = IF ok THEN @ + 1 ELSE Len(handler.cb[ev[s].cat]) + 1,
                        ![s].log = Append(@, [op |-> "finish", f |-> f]),
                        ![s].reported = IF ok THEN @ ELSE Append(@, f)]
    /\ UNCHANGED <<handlerSome, handler, other, builderIntents, ctxFutSome, runPc, clientIntents, nextFn,
                   defaultIntents, ctxChan>>
    /\ UNCHANGED <<cellVars, connVars, listenVars, clientVars, fnResult, voiceVars>>

\* The callback's future completes: Err(e) is said to the ErrorNotifier, and
\* the loop goes on.
CallbackFinish(s, ok) ==
    /\ ev[s].pc = "calling"
    /\ LET f == handler.cb[ev[s].cat][ev[s].idx] IN
       ev' = [ev EXCEPT ![s].pc = "loop",
                        ![s].idx = @ + 1,
                        ![s].log = Append(@, [op |-> "finish", f |-> f]),
                        ![s].reported = IF ok THEN @ ELSE Append(@, f)]
    /\ UNCHANGED <<handlerSome, handler, other, builderIntents, ctxFutSome, runPc, clientIntents, nextFn,
                   defaultIntents, ctxChan>>
    /\ UNCHANGED <<cellVars, connVars, listenVars, clientVars, fnResult, voiceVars>>

\* The loop has gone through the list: the method returns and the task ends.
EventEnd(s) ==
    /\ ev[s].pc = "loop"
    /\ ev[s].idx > Len(handler.cb[ev[s].cat])
    /\ ev' = [ev EXCEPT ![s] = IdleEvent]
    /\ UNCHANGED <<handlerSome, handler, other, builderIntents, ctxFutSome, runPc, clientIntents, nextFn,
                   defaultIntents, ctxChan>>
    /\ UNCHANGED <<cellVars, connVars, listenVars, clientVars, fnResult, voiceVars>>

\* What a dispatch task does once its event has started.
Dispatch(s) ==
    \/ \E outcome \in {"Some", "None", "Err"} : ReadyGuilds(s, outcome)
    \/ \E ok \in BOOLEAN : GuildCreateSlash(s, ok)
    \/ CallbackStart(s)
    \/ \E ok \in BOOLEAN : CallbackFinish(s, ok)
    \/ EventEnd(s)

\* The task that dispatches events one at a time in the builder's specification.
FirstEventTask == 1

\* The Context the client passes with a ready event in the builder's specification.
FirstCtx == 1

\* A bot as the application's main builds it: a new Builder.
InitBuilder ==
    /\ InitCell
    /\ InitConn
    /\ InitClient
    /\ defaultIntents \in DefaultIntentsChoices
    /\ InitBot
    /\ ignoredChannels = {}
    /\ InitVoiceStates
    /\ connPc = "none"
    /\ listenPc = "binding"
    /\ accepted = 0
    /\ notified = <<>>

\* The application configures a Builder, runs it, and the client dispatches
\* events to the handler: ready events, guild_create events, and events of the
\* categories that have callbacks (for the others the method is an empty loop).
NextBuilder ==
    \/ \E cat \in Categories : BuilderOn(cat, FALSE)
    \/ BuilderOn("guild_create", TRUE)
    \/ \E cat \in Categories : OtherOn(cat, FALSE)
    \/ OtherOn("guild_create", TRUE)
    \/ BuilderEventHandler
    \/ BuilderCommands
    \/ BuilderRun
    \/ BuilderRunFails
    \/ ClientEnds
    \/ ReadyStart(FirstEventTask, FirstCtx)
    \/ \E cat \in Categories :
          (cat = "guild_create" \/ handler.cb[cat] # <<>>) /\ EventStart(FirstEventTask, cat)
    \/ Dispatch(FirstEventTask)

SpecBuilder == InitBuilder /\ [][NextBuilder]_vars

\* The producer of the cell new_with_ctx makes: rx.await yields the context
\* that was sent, or fails once the Sender is dropped without a send.
CtxProducer ==
    \/ \E v \in Values : ctxChan = v /\ ProducerFinish(v)
    \/ ctxChan = SenderDropped /\ ProducerFail
    \/ Grant(ProducerTask)
    \/ ProducerStore
    \/ ProducerSend

\* The task that reads the context out of ctx_fut.
CtxReader == 1

\* A bot whose handler has no callbacks: the handler is made by event_handler
\* with a Handler::default(); the client dispatches ready events to it while a
\* task reads the cell that new_with_ctx returned.
InitCtx == InitBuilder /\ defaultIntents = {}

NextCtx ==
    \/ BuilderEventHandler
    \/ BuilderRun
    \/ BuilderRunFails
    \/ ClientEnds
    \/ \E s \in EventTasks, ctx \in Values : ReadyStart(s, ctx)
    \/ \E s \in EventTasks, outcome \in {"Some", "None", "Err"} : ReadyGuilds(s, outcome)
    \/ \E s \in EventTasks : EventEnd(s)
    \/ ctxFutSome /\ CtxProducer
    \/ ctxFutSome /\ ReadCall(CtxReader)
    \/ Grant(CtxReader)
    \/ ReadCheck1(CtxReader)
    \/ ReadRecv(CtxReader)
    \/ ReadCheck2(CtxReader)
    \/ ReadRelease(CtxReader)

SpecCtx == InitCtx /\ [][NextCtx]_vars

\* The steps a task takes by itself once it is polled: acquiring a lock it has
\* queued for, checking, receiving, and dropping a guard it got.
AccessorStep(t) ==
    \/ Grant(t)
    \/ ReadCheck1(t) \/ ReadRecv(t) \/ ReadCheck2(t) \/ ReadRelease(t)
    \/ WriteCheck1(t) \/ WriteRecv(t) \/ WriteCheck2(t) \/ WriteRelease(t)

ProducerStep ==
    \/ Grant(ProducerTask)
    \/ ProducerStore
    \/ ProducerSend

\* Scheduling: the runtime polls every woken task, and a task that got a guard
\* drops it; nothing forces a task to call, a future to complete or a writer to
\* assign.
FairCell ==
    /\ WF_vars(ProducerStep)
    /\ \A t \in FairProcs : WF_vars(AccessorStep(t))

SpecCellFair == Init /\ [][NextCellFair]_vars /\ FairCell

\* ------------------------------------------- voice_state_exporter: callbacks

\* on_guild_create: the map is built from guild.voice_states and put into the
\* data; then dump_info is called and its result returned. (One guild: the
\* event comes once, before the data has a map.)
ExporterGuildCreate(members, dump_ok) ==
    /\ ~voiceStates.present
    /\ LET chan_map == BuildMap(members, Len(members)) IN
       /\ voiceStates' = [present |-> TRUE, chan_map |-> chan_map]
       /\ exporterRun' = [event |-> "guild_create", user_id |-> 0, channel_id |-> NoChannel,
                          calls |-> <<DumpInfo(chan_map)>>,
                          result |-> IF dump_ok THEN "Ok" ELSE "Err"]
    /\ UNCHANGED ignoredChannels
    /\ UNCHANGED <<cellVars, connVars, listenVars, clientVars, fnResult, botVars>>

\* on_guild_create: to_user returns Err, or the name of a channel cannot be
\* got and expect panics; the data has not been touched.
ExporterGuildCreateFails(result) ==
    /\ ~voiceStates.present
    /\ exporterRun' = [event |-> "guild_create", user_id |-> 0, channel_id |-> NoChannel,
                       calls |-> <<>>, result |-> result]
    /\ UNCHANGED <<voiceStates, ignoredChannels>>
    /\ UNCHANGED <<cellVars, connVars, listenVars, clientVars, fnResult, botVars>>

\* on_voice_state_update ends before the map is touched: guild_id is None
\* (panic), to_user or ignored_channels returns Err, or the data has no
\* VoiceStates (panic).
VoiceStateUpdateFails(user_id, channel_id, result) ==
    /\ result = "panic: missing voice states map" <=> ~voiceStates.present
    /\ exporterRun' = [event |-> "voice_state_update", user_id |-> user_id, channel_id |-> channel_id,
                       calls |-> <<>>, result |-> result]
    /\ UNCHANGED <<voiceStates, ignoredChannels>>
    /\ UNCHANGED <<cellVars, connVars, listenVars, clientVars, fnResult, botVars>>

\* on_voice_state_update: the user is taken out of every channel, the map has
\* no entry for the new channel, and channel_id.name fails: expect panics.
VoiceStateUpdateNamePanics(user, channel_id) ==
    /\ voiceStates.present
    /\ channel_id # NoChannel
    /\ channel_id \notin DOMAIN RemoveUser(voiceStates.chan_map, user.id)
    /\ voiceStates' = [voiceStates EXCEPT !.chan_map = RemoveUser(voiceStates.chan_map, user.id)]
    /\ exporterRun' = [event |-> "voice_state_update", user_id |-> user.id, channel_id |-> channel_id,
                       calls |-> <<>>, result |-> "panic: failed to get channel name"]
    /\ UNCHANGED ignoredChannels
    /\ UNCHANGED <<cellVars, connVars, listenVars, clientVars, fnResult, botVars>>

\* An update that calls notify_start whenever some channel is not empty afterwards.
VoiceStateUpdateNotifiesNonEmpty(user, channel_id, dump_ok, notify_ok) ==
    /\ voiceStates.present
    /\ LET was_empty == TRUE
           removed == RemoveUser(voiceStates.chan_map, user.id)
           chan_map == IF channel_id = NoChannel THEN removed ELSE AddUser(removed, channel_id, user)
           is_empty == AllEmpty(chan_map, ignoredChannels)
       IN  /\ voiceStates' = [voiceStates EXCEPT !.chan_map = chan_map]
           /\ exporterRun' =
                [event |-> "voice_state_update", user_id |-> user.id, channel_id |-> channel_id,
                 calls |-> IF dump_ok /\ was_empty /\ ~is_empty /\ channel_id # NoChannel
                           THEN <<DumpInfo(chan_map), NotifyStart(user.id, channel_id)>>
                           ELSE <<DumpInfo(chan_map)>>,
                 result |-> IF ~dump_ok THEN "Err"
                            ELSE IF was_empty /\ ~is_empty
                            THEN (IF channel_id = NoChannel
                                  THEN "panic: voice channels no longer empty but new channel is None"
                                  ELSE IF notify_ok THEN "Ok" ELSE "Err")
                            ELSE "Ok"]
    /\ UNCHANGED ignoredChannels
    /\ UNCHANGED <<cellVars, connVars, listenVars, clientVars, fnResult, botVars>>

\* on_voice_state_update from the write lock on the data to the end: was_empty,
\* the user taken out of every channel and put into the new one, is_empty,
\* dump_info(..)?, and notify_start(..)? if was_empty && !is_empty.
VoiceStateUpdate(user, channel_id, dump_ok, notify_ok) ==
    /\ voiceStates.present
    /\ LET was_empty == AllEmpty(voiceStates.chan_map, ignoredChannels)
           removed == RemoveUser(voiceStates.chan_map, user.id)
           chan_map == IF channel_id = NoChannel THEN removed ELSE AddUser(removed, channel_id, user)
           is_empty == AllEmpty(chan_map, ignoredChannels)
       IN  /\ voiceStates' = [voiceStates EXCEPT !.chan_map = chan_map]
           /\ exporterRun' =
                [event |-> "voice_state_update", user_id |-> user.id, channel_id |-> channel_id,
                 calls |-> IF dump_ok /\ was_empty /\ ~is_empty /\ channel_id # NoChannel
                           THEN <<DumpInfo(chan_map), NotifyStart(user.id, channel_id)>>
                           ELSE <<DumpInfo(chan_map)>>,
                 result |-> IF ~dump_ok THEN "Err"
                            ELSE IF was_empty /\ ~is_empty
                            THEN (IF channel_id = NoChannel
                                  THEN "panic: voice channels no longer empty but new channel is None"
                                  ELSE IF notify_ok THEN "Ok" ELSE "Err")
                            ELSE "Ok"]
    /\ UNCHANGED ignoredChannels
    /\ UNCHANGED <<cellVars, connVars, listenVars, clientVars, fnResult, botVars>>

\* Results of a callback that ends before the map is touched.
EarlyResults ==
    {"Err", "panic: voice_state_update called without guild", "panic: missing voice states map"}

\* A bot with the handler of voice_state_exporter; no event yet.
InitVoice ==
    /\ InitCell
    /\ InitConn
    /\ InitClient
    /\ defaultIntents = {}
    /\ InitBot
    /\ ignoredChannels \in IgnoredChoices
    /\ InitVoiceStates
    /\ connPc = "none"
    /\ listenPc = "binding"
    /\ accepted = 0
    /\ notified = <<>>

\* The guild's guild_create, then voice_state_update events; the callbacks run
\* one at a time, each under the write lock of the data.
NextVoice ==
    \/ ~voiceStates.present /\ \E members \in GuildVoiceStates, dump_ok \in BOOLEAN :
          ExporterGuildCreate(members, dump_ok)
    \/ \E result \in {"Err", "panic: failed to get channel name"} : ExporterGuildCreateFails(result)
    \/ \E user_id \in UserIds, channel_id \in Channels \cup {NoChannel}, result \in EarlyResults :
          VoiceStateUpdateFails(user_id, channel_id, result)
    \/ voiceStates.present /\ \E user \in Users, channel_id \in Channels :
          VoiceStateUpdateNamePanics(user, channel_id)
    \/ voiceStates.present
          /\ \E user \in Users, channel_id \in Channels \cup {NoChannel}, dump_ok, notify_ok \in BOOLEAN :
                (dump_ok \/ notify_ok) /\ VoiceStateUpdate(user, channel_id, dump_ok, notify_ok)

SpecVoice == InitVoice /\ [][NextVoice]_vars

\* ------------------------------------------------------------------ claims

HoldsGuard(t) == pc[t] \in {"r_hold", "w_hold"}

\* C1: read() and write() return a guard only when the cell is Ready, the guard
\* dereferences to a stored value (never a default), and no call ends in a panic.
C1_GuardOnlyWhenReady ==
    \A t \in Accessors :
        /\ HoldsGuard(t) => state = "Ready" /\ seen[t] \in Values
        /\ pc[t] \notin {"panicked", "unreachable"}

\* C1 witness: a read() and a write() made while Pending are both suspended on
\* the notification.
C1_SuspendedWhilePending ==
    /\ state = "Pending"
    /\ \E t, u \in Procs : pc[t] = "r_recv" /\ pc[u] = "w_recv"

\* The producer's future has completed (the task is past fut.await).
ProducerCompleted == pc[ProducerTask] \in {"p_lock", "p_store", "p_send", "done"}

ReadInProgress(t) == pc[t] \in {"r_lock1", "r_check1", "r_recv", "r_lock2", "r_check2"}

\* C2: under fair scheduling every read() in progress, subscribed or not, returns
\* its guard once the producer's future has completed.
C2_NoLostWakeup ==
    \A t \in FairProcs : (ReadInProgress(t) /\ ProducerCompleted) ~> (pc[t] = "r_hold")

\* C2 witness: two readers that both subscribed while Pending hold the read lock
\* together after the notification.
C2_WokenReadersTogether ==
    \E t, u \in Procs :
        /\ t # u
        /\ pc[t] = "r_check2" /\ pc[u] = "r_check2"
        /\ {t, u} \subseteq lockReaders

\* C3: a caller woken by the notification finds the cell Ready; the
\* unreachable!() arm is never taken.
C3_ReadyAfterNotification ==
    \A t \in Accessors :
        /\ pc[t] # "unreachable"
        /\ pc[t] \in {"r_lock2", "r_check2", "w_lock2", "w_check2"} => state = "Ready"

\* C3 witness: a woken reader re-checks under the lock while a woken writer queues.
C3_WokenCallersRecheck ==
    \E t, u \in Procs : pc[t] = "r_check2" /\ pc[u] = "w_lock2"

\* C4: the state changes only in the producer's store, from Pending to Ready,
\* and the producer stores at most once.
C4_SingleTransition ==
    [][/\ state = "Ready" => state' = "Ready"
       /\ state' # state => pc[ProducerTask] = "p_store" /\ pc'[ProducerTask] = "p_send"
       /\ (pc[ProducerTask] = "p_store" /\ pc'[ProducerTask] # "p_store") => state = "Pending"
      ]_vars

\* C4 witness: the producer is done and the cell goes on being used.
C4_ReadyAndInUse ==
    /\ state = "Ready"
    /\ pc[ProducerTask] = "done"
    /\ \E t, u \in Procs : pc[t] = "w_hold" /\ pc[u] = "r_lock1"

\* C5: while a write() guard is held, no other guard is held, and the lock is
\* never held for writing and for reading at once.
C5_WriterExcludesAll ==
    /\ \A t \in Accessors :
            pc[t] = "w_hold" => \A u \in Accessors \ {t} : ~HoldsGuard(u)
    /\ lockWriter # NoTask => lockReaders = {}

\* C5 witness: two read() guards held together while a write() waits in the queue.
C5_ReadersShareWriterWaits ==
    \E t, u, w \in Procs :
        /\ t # u
        /\ pc[t] = "r_hold" /\ pc[u] = "r_hold"
        /\ pc[w] = "w_lock1"

\* C6 as stated (observed-value part): every read() guard observes the value the
\* first read() observed.
C6_AllReadsSameValue ==
    \A t \in Accessors : pc[t] = "r_hold" => seen[t] = firstRead

\* C6 as amended: once Ready, no call subscribes and the first check returns the
\* guard; a read() guard observes the current value, which only the holder of a
\* write() guard changes.
C6_ReadyNeedsNoWait ==
    /\ [](\A t \in Accessors : pc[t] = "r_hold" => seen[t] = value)
    /\ [][state = "Ready" =>
            /\ \A t \in Accessors :
                /\ rx'[t] # NoRx => rx[t] # NoRx
                /\ (pc[t] = "r_check1" /\ pc'[t] # pc[t]) => pc'[t] = "r_hold"
                /\ (pc[t] = "w_check1" /\ pc'[t] # pc[t]) => pc'[t] = "w_hold"
            /\ value' # value => \E t \in Accessors : pc[t] = "w_hold" /\ pc'[t] = "w_hold"
        ]_vars

\* C6 witness: after a first read() and a later assignment through a write()
\* guard, a further read() holds its guard.
C6_ReadAfterWrite ==
    /\ firstRead \in Values
    /\ value # firstRead
    /\ \E t \in Procs : pc[t] = "r_hold"

\* Number of line breaks in a text.
RECURSIVE LineBreaks(_)
LineBreaks(text) ==
    IF text = <<>> THEN 0
    ELSE LineBreaks(Tail(text)) + (IF Head(text) = "\n" THEN 1 ELSE 0)

C8_OneReplyPerInput ==
    /\ connPc \in {"reading", "returned"} => Len(replies) = tokenized
    /\ \A i \in 1..Len(replies) :
        LineBreaks(replies[i]) = 1 /\ replies[i][Len(replies[i])] = "\n"

\* C8 as amended: a tokenized input gets at most one reply; the replies are
\* exactly those of the command functions that ran and whose write succeeded,
\* each one write ending in a line break (one line unless the function's message
\* holds a line break); a blank line, an unknown command and a missing or
\* unparseable argument get no reply.
C8_AtMostOneReply ==
    /\ Len(replies) <= Len(handlerRuns)
    /\ Len(handlerRuns) <= tokenized
    /\ Len(handlerRuns) <= Len(replies) + 1
    /\ connPc = "reading" => Len(replies) = Len(handlerRuns)
    /\ connPc = "replying" => Len(replies) + 1 = Len(handlerRuns)
    /\ connResult.kind \in {"Panic", "UnknownCommand", "ArgParse"} =>
            Len(replies) = Len(handlerRuns) /\ Len(replies) < tokenized
    /\ \A i \in 1..Len(replies) :
        /\ replies[i] = ReplyText(handlerRuns[i].fn, handlerRuns[i].res)
        /\ replies[i][Len(replies[i])] = "\n"
        /\ LineBreaks(replies[i]) = 1 + LineBreaks(handlerRuns[i].res.msg)

\* C8 witness: two inputs were tokenized; the first was replied to, the second,
\* an unknown command, was not.
C8_RepliedThenSilent ==
    /\ tokenized = 2
    /\ Len(replies) = 1
    /\ connResult.kind = "UnknownCommand"

\* C9: a step that tokenizes a blank line runs no command, is no error, and
\* leaves handle_client reading.
C9_BlankLineIgnored ==
    [][(connPc = "reading" /\ tokenized' = tokenized + 1 /\ args' = <<>>) =>
            /\ connPc' = "reading"
            /\ connResult' = connResult
            /\ handlerRuns' = handlerRuns
      ]_vars

C11_MissingArgIsArgParse ==
    [][(connPc = "ctx" /\ connPc' # "ctx" /\ Len(args) <= Len(FnArgTypes[FnOf(args[1])])) =>
            /\ connResult'.kind = "ArgParse"
            /\ handlerRuns' = handlerRuns
      ]_vars

\* C12: a tokenized line whose first token is no registered command makes
\* handle_client return UnknownCommand with the line's tokens; no command
\* function runs for it, nothing is written for it, and nothing of the connection
\* changes afterwards.
C12_UnknownCommandEndsConnection ==
    /\ [](connResult.kind = "UnknownCommand" =>
            /\ connPc = "returned"
            /\ readOutcome = "line"
            /\ connResult.args = args
            /\ args # <<>>
            /\ args[1] \notin CmdNames
            /\ Len(handlerRuns) = tokenized - 1
            /\ Len(replies) = Len(handlerRuns)
            /\ pc[ConnTask] = "idle")
    /\ [][(connPc = "reading" /\ tokenized' = tokenized + 1 /\ args' # <<>> /\ args'[1] \notin CmdNames) =>
            /\ connPc' = "returned"
            /\ connResult' = [kind |-> "UnknownCommand", args |-> args']
            /\ handlerRuns' = handlerRuns
            /\ replies' = replies
         ]_vars
    /\ [][connResult.kind = "UnknownCommand" => UNCHANGED connVars]_vars

\* C12 witness: after a command that ran, the unknown command x has ended the
\* connection.
C12_UnknownAfterCommand ==
    /\ connResult = [kind |-> "UnknownCommand", args |-> << <<"x">> >>]
    /\ handlerRuns # <<>>

\* C13: when a registered command's arguments parse, the command function runs
\* and the reply prepared is the first token the client sent (the command's name
\* with hyphens) if it returns Ok, and its message if it returns Err, followed by
\* a line break; once the reply is written handle_client is reading the next
\* line, with nothing returned.
C13_ReplyIsNameOrFailure ==
    /\ [](connPc = "replying" =>
            LET run == handlerRuns[Len(handlerRuns)] IN
            /\ run.fn = FnOf(args[1])
            /\ pendingReply = (IF run.res.ok THEN args[1] ELSE run.res.msg) \o <<"\n">>)
    /\ [][(connPc = "ctx" /\ connPc' # "ctx"
            /\ ParseArgs(args, FnArgTypes[FnOf(args[1])], 1, <<>>).kind = "Ok") =>
            /\ connPc' = "replying"
            /\ Len(handlerRuns') = Len(handlerRuns) + 1
         ]_vars
    /\ [][replies' # replies =>
            /\ replies' = Append(replies, pendingReply)
            /\ connPc' = "reading"
            /\ connResult' = [kind |-> "Running"]
         ]_vars

\* C13 witness: s-n 1 was answered with s-n after Ok, the next command with the
\* message e after Err("e"), and handle_client is reading again.
C13_NameThenFailure ==
    /\ connPc = "reading"
    /\ replies = << <<"s", "-", "n", "\n">>, <<"e", "\n">> >>

\* C14: a line is read only when every command so far has had its reply
\* written; a command function runs only for the line read last, after all
\* earlier replies; each reply written is the one of the command that ran last:
\* replies follow the order of the lines.
C14_RepliesInArrivalOrder ==
    /\ [][linesRead' # linesRead =>
            /\ connPc = "reading"
            /\ pendingReply = <<>>
            /\ Len(replies) = Len(handlerRuns)
         ]_vars
    /\ [][handlerRuns' # handlerRuns =>
            /\ Len(replies) = Len(handlerRuns)
            /\ Len(handlerRuns') = Len(handlerRuns) + 1
            /\ SubSeq(handlerRuns', 1, Len(handlerRuns)) = handlerRuns
            /\ handlerRuns'[Len(handlerRuns')].fn = FnOf(args[1])
            /\ linesRead' = linesRead
         ]_vars
    /\ [][replies' # replies =>
            /\ Len(replies') = Len(handlerRuns)
            /\ SubSeq(replies', 1, Len(replies)) = replies
            /\ replies'[Len(replies')] =
                    ReplyText(handlerRuns[Len(handlerRuns)].fn, handlerRuns[Len(handlerRuns)].res)
            /\ linesRead' = linesRead
         ]_vars

\* C14 witness: two different commands were run and answered, one after the
\* other.
C14_TwoCommandsAnswered ==
    /\ Len(replies) = 2
    /\ Len(handlerRuns) = 2
    /\ handlerRuns[1].fn # handlerRuns[2].fn

\* C15: a line is appended to buf and the whole of buf is tokenized; on failure
\* buf keeps the text with a line break appended, no command is selected and
\* none runs; on success the tokens are those of the whole buffered text and buf
\* is emptied; buf changes at no other time.
C15_ContinuationBuffering ==
    /\ [](buf # <<>> =>
            /\ buf[Len(buf)] = "\n"
            /\ ~ShlexSplit(SubSeq(buf, 1, Len(buf) - 1)).ok)
    /\ [][linesRead' # linesRead =>
            \/ /\ tokenized' = tokenized
               /\ buf' = buf \o lastError'.line \o <<"\n">>
               /\ ~ShlexSplit(buf \o lastError'.line).ok
               /\ connPc' = "reading"
               /\ UNCHANGED <<args, handlerRuns, replies, connResult>>
            \/ /\ tokenized' = tokenized + 1
               /\ buf' = <<>>
               /\ \E line \in SampleLines :
                    /\ ShlexSplit(buf \o line).ok
                    /\ args' = ShlexSplit(buf \o line).args
         ]_vars
    /\ [][buf' # buf => linesRead' # linesRead]_vars

\* C15 witness: g 'a and b' were read, and g ran once with the argument
\* a<line break>b.
C15_QuotedAcrossLines ==
    /\ linesRead = 2
    /\ tokenized = 1
    /\ Len(handlerRuns) = 1
    /\ handlerRuns[1].fn = <<"g">>
    /\ handlerRuns[1].args = << <<"a", "\n", "b">> >>

\* C16 as stated: when a line failed to tokenize, the connection's close returns
\* that error.
C16_TokenizeErrorReturnedAtClose ==
    (connPc = "returned" /\ readOutcome \in {"eof", "reset"} /\ linesRead > tokenized) =>
        connResult.kind = "Shlex"

\* C16 as amended: a line that fails to tokenize leaves handle_client reading and
\* sets last_error to Shlex with that line; the next successful tokenization
\* sets it back to Ok; so last_error is Shlex exactly while buf holds text, and
\* the end of the stream or a reset returns last_error as it then is.
C16_LastErrorAtClose ==
    /\ [](lastError.kind = "Shlex" <=> buf # <<>>)
    /\ [](lastError.kind = "Ok" <=> buf = <<>>)
    /\ [][(linesRead' # linesRead /\ tokenized' = tokenized) =>
            /\ lastError'.kind = "Shlex"
            /\ lastError'.line \in SampleLines
            /\ connPc' = "reading"
            /\ connResult' = connResult
         ]_vars
    /\ [][tokenized' # tokenized => lastError' = [kind |-> "Ok"]]_vars
    /\ []((connPc = "returned" /\ readOutcome \in {"eof", "reset"}) => connResult = lastError)

\* C16 witness: a command was answered, the next line left a quote open, and the
\* end of the stream returned that line's Shlex error.
C16_ShlexReturnedAtEof ==
    /\ connPc = "returned"
    /\ readOutcome = "eof"
    /\ connResult = [kind |-> "Shlex", line |-> <<"g", " ", "'", "a">>]
    /\ Len(replies) = 1

\* C17 as stated: after a read that failed with a reset, listen notifies nothing
\* for that connection, whatever was received before.
C17_ResetNeverNotified ==
    [][(listenPc = "serving" /\ connPc = "returned" /\ readOutcome = "reset") =>
            notified' = notified
      ]_vars

\* C17 as amended: a reset ends the connection by returning last_error, so it
\* is never an Io result; listen then goes back to accepting, and notifies
\* exactly when the last line received left buf untokenized, with that line's
\* Shlex error.
C17_ResetReportsOnlyOpenQuote ==
    /\ [](readOutcome = "reset" =>
            /\ connPc = "returned"
            /\ connResult = lastError
            /\ connResult.kind \in {"Ok", "Shlex"}
            /\ connResult.kind = "Shlex" <=> buf # <<>>)
    /\ [][(connPc = "reading" /\ readOutcome' = "reset") =>
            UNCHANGED <<notified, listenPc, linesRead, tokenized, handlerRuns, replies>>
         ]_vars
    /\ [][(listenPc = "serving" /\ listenPc' # "serving" /\ readOutcome = "reset") =>
            /\ listenPc' = "accepting"
            /\ notified' = IF buf = <<>> THEN notified ELSE Append(notified, ClientCrash("Shlex"))
         ]_vars

\* C17 witness: a first connection was reset with a quote left open and was
\* notified as Shlex; a second one was reset after an answered command and
\* nothing was notified for it.
C17_TwoResets ==
    /\ accepted = 2
    /\ listenPc = "accepting"
    /\ readOutcome = "reset"
    /\ Len(replies) = 1
    /\ notified = <<ClientCrash("Shlex")>>

\* C18: a read that fails otherwise than by a reset, and a reply write that
\* fails, make handle_client return Io at once, with the guard dropped; listen
\* passes that Io to notify_thread_crash and goes back to accepting; nothing
\* more of the connection is read, run or written.
C18_IoErrorTearsDownAndNotifies ==
    /\ [][(connPc = "reading" /\ readOutcome' = "error") =>
            /\ connPc' = "returned"
            /\ connResult' = [kind |-> "Io"]
         ]_vars
    /\ [][(connPc = "replying" /\ connPc' # "replying" /\ replies' = replies) =>
            /\ connPc' = "returned"
            /\ connResult' = [kind |-> "Io"]
            /\ pc'[ConnTask] = "idle"
         ]_vars
    /\ [][(listenPc = "serving" /\ connResult.kind = "Io") =>
            /\ UNCHANGED connVars
            /\ listenPc' # listenPc =>
                    /\ listenPc' = "accepting"
                    /\ notified' = Append(notified, ClientCrash("Io"))
         ]_vars

\* C18 witness: the write of a first connection's reply failed and was
\* notified; the read of the second connection failed after an answered
\* command and was notified too.
C18_WriteAndReadFailures ==
    /\ accepted = 2
    /\ listenPc = "accepting"
    /\ readOutcome = "error"
    /\ Len(replies) = 1
    /\ notified = <<ClientCrash("Io"), ClientCrash("Io")>>

\* A connection is open: handle_client has been entered and has not ended.
ConnOpen == connPc \in {"reading", "ctx", "replying"}

\* C19 as stated: while a connection is open, the listener can accept the next
\* connection.
C19_AcceptsWhileConnectionOpen ==
    (listenPc \notin {"binding", "returned"} /\ ConnOpen /\ accepted < MaxConns) => ENABLED ListenAccept

\* C20 as stated: whatever lines a client sent, once its handle_client has ended
\* listen goes on to the next connection.
C20_ListenerSurvivesClients ==
    (listenPc = "serving" /\ ~ConnOpen) => ENABLED ListenClientDone

ListenEnded ==
    \/ listenPc \in {"returned", "reported"}
    \/ listenPc = "serving" /\ connPc = "panicked"

\* C22 as stated: listen ends only by returning the error of a failed bind or
\* accept to its caller.
C22_EndsOnlyByReturningErr ==
    ListenEnded => listenPc \in {"returned", "reported"}

\* C23: send writes once, the quoted arguments and one final line break, and
\* returns from its read only when a whole reply line has arrived or the server
\* has closed the stream: with a line break in what the server wrote it returns
\* the text before the first line break, otherwise (nothing written, the stream
\* closed) it returns MissingNewline.
C23_OneRoundTrip ==
    /\ [][wire' # wire =>
            /\ wire = <<>>
            /\ sendPc = "connected"
            /\ wire' = JoinQuoted(sendCmd) \o <<"\n">>
         ]_vars
    /\ [][(sendPc = "reading" /\ sendPc' = "done" /\ sendResult'.kind # "Io") =>
            LET stream == Concat(replies) IN
            IF \E i \in 1..Len(stream) : stream[i] = "\n"
            THEN /\ sendResult'.kind = "Ok"
                 /\ \A i \in 1..Len(sendResult'.reply) : sendResult'.reply[i] # "\n"
                 /\ sendResult'.reply \o <<"\n">> = SubSeq(stream, 1, Len(sendResult'.reply) + 1)
            ELSE /\ sendResult' = [kind |-> "MissingNewline"]
                 /\ ServerClosed
         ]_vars
    /\ [][sendPc = "done" => UNCHANGED clientVars]_vars

\* C23 witness: the server closed the stream on an unknown command without
\* writing, and send returned MissingNewline.
C23_MissingNewlineAfterClose ==
    /\ sendPc = "done"
    /\ sendResult = [kind |-> "MissingNewline"]
    /\ connResult.kind = "UnknownCommand"
    /\ replies = <<>>

\* The cmd given to send names a registered command and its arguments parse.
SendCmdParses ==
    /\ sendCmd # <<>>
    /\ sendCmd[1] \in CmdNames
    /\ ParseArgs(sendCmd, FnArgTypes[FnOf(sendCmd[1])], 1, <<>>).kind = "Ok"

\* C24: when send has returned without a transport error for a registered
\* command whose arguments parse, the command function has run once, and if it
\* returned Ok the value of send is exactly the command's name.
C24_SendReturnsName ==
    (sendPc = "done" /\ sendResult.kind # "Io" /\ wire # <<>> /\ SendCmdParses) =>
        /\ Len(handlerRuns) = 1
        /\ handlerRuns[1].res.ok => sendResult = [kind |-> "Ok", reply |-> sendCmd[1]]

\* C24 witness: send of s-n 1 returned s-n.
C24_NameReturned ==
    /\ sendPc = "done"
    /\ sendCmd = << <<"s", "-", "n">>, <<"1">> >>
    /\ sendResult = [kind |-> "Ok", reply |-> <<"s", "-", "n">>]

\* C25 as stated: the tokens handle_client gets from the lines of what send
\* wrote are the cmd given to send.
C25_QuoteRoundTrip ==
    [][tokenized' = tokenized + 1 => args' = sendCmd]_vars

\* A read() or write() call of t has come back: with a guard, or by panicking.
CallReturned(t) == pc[t] \in {"r_hold", "w_hold", "panicked", "unreachable"}

\* C26: while the producer's future has not completed, and for ever once the
\* producer task has failed without storing, no read() or write() call returns
\* a guard or panics; a caller waiting in recv stays there, and a failed
\* producer stays failed.
C26_NoTimeout ==
    /\ [](pc[ProducerTask] \in {"running", "failed"} =>
            \A t \in Accessors : ~CallReturned(t))
    /\ [][(pc[ProducerTask] \in {"running", "failed"} /\ pc'[ProducerTask] = pc[ProducerTask]) =>
            \A t \in Accessors : pc[t] \in {"r_recv", "w_recv"} => pc'[t] = pc[t]]_vars
    /\ [][pc[ProducerTask] = "failed" =>
            /\ pc'[ProducerTask] = "failed"
            /\ state' = "Pending"]_vars

\* C26 witness: the producer task has failed while a reader and a writer wait in recv.
C26_WaitingOnFailedProducer ==
    /\ pc[ProducerTask] = "failed"
    /\ \E r, w \in Procs : pc[r] = "r_recv" /\ pc[w] = "w_recv"

\* C27: once the cell is Ready it stays Ready, its value changes only in a step
\* of a task that holds the guard returned by write(), and every task holding a
\* guard (the connection's ctx included) sees the cell's current value.
C27_ValueChangesUnderWriteGuard ==
    /\ [][state = "Ready" =>
            /\ state' = "Ready"
            /\ value' # value =>
                 \E t \in Accessors :
                    /\ pc[t] = "w_hold" /\ pc'[t] = "w_hold"
                    /\ lockWriter = t
                    /\ lockReaders = {}
                    /\ seen'[t] = value'
         ]_vars
    /\ [](\A t \in Accessors : pc[t] \in {"r_hold", "w_hold"} => seen[t] = value)
    /\ [][(connPc = "ctx" /\ pc[ConnTask] = "r_hold") => value' = value]_vars

\* C27 witness: the connection has run a command with the first value of the
\* cell, and a writer has since replaced that value.
C27_WrittenAfterDispatch ==
    /\ Len(handlerRuns) = 1
    /\ state = "Ready"
    /\ firstRead # NoValue
    /\ value # firstRead
    /\ \E t \in SharerProcs : pc[t] = "w_hold"

\* C28: the handler made by new_with_ctx holds the Sender until its first ready
\* event; that ready takes the Sender and sends its ctx, every later ready
\* finds ctx_tx empty, sends nothing and changes nothing of the cell; what was
\* sent is never replaced, and a Ready cell holds the first ready's ctx.
C28_ContextSentOnce ==
    /\ [][\A s \in EventTasks : (ev[s].pc = "idle" /\ ev'[s].cat = "ready") =>
            /\ ~handler'.ctx_tx
            /\ IF handler.ctx_tx
               THEN ctxChan = ChanEmpty /\ ctxChan' = ev'[s].ctx
               ELSE ctxChan' = ctxChan /\ UNCHANGED cellVars
         ]_vars
    /\ [][(ctxChan \in Values) => ctxChan' = ctxChan]_vars
    /\ []((runPc = "running" /\ handlerSome /\ ctxChan = ChanEmpty) => handler.ctx_tx)
    /\ [](state = "Ready" => value = ctxChan)
    /\ [][state = "Ready" => (state' = "Ready" /\ value' = value)]_vars

\* C28 witness: a second ready event with another ctx is being handled while
\* a reader holds the first ready's ctx.
C28_SecondReadyOtherContext ==
    /\ state = "Ready"
    /\ pc[CtxReader] = "r_hold"
    /\ \E s \in EventTasks : ev[s].cat = "ready" /\ ev[s].ctx # value

\* Sequence a is the beginning of sequence b.
IsPrefix(a, b) == Len(a) <= Len(b) /\ SubSeq(b, 1, Len(a)) = a

\* The calls one event makes for the first n callbacks of list: each is
\* started and finished before the next is started.
RECURSIVE CallsOf(_, _)
CallsOf(list, n) ==
    IF n = 0 THEN <<>>
    ELSE CallsOf(list, n - 1) \o <<[op |-> "start", f |-> list[n]], [op |-> "finish", f |-> list[n]]>>

\* C29: every on_<cat> puts its callback at the end of that category's list,
\* event_handler puts the merged handler's lists, in their order, behind the
\* builder's; nothing already in a list moves, and the lists are fixed once the
\* bot runs. An event calls the callbacks of its category from the first on,
\* each started only after the one before has finished, and its method returns
\* only after the last.
C29_CallbacksInOrderAdded ==
    /\ [][runPc = "building" =>
            \A cat \in Categories :
               /\ IsPrefix(handler.cb[cat], handler'.cb[cat])
               /\ (other # DefaultHandler /\ other' = DefaultHandler) =>
                     handler'.cb[cat] = handler.cb[cat] \o other.cb[cat]
               /\ other' # DefaultHandler => IsPrefix(other.cb[cat], other'.cb[cat])
               /\ nextFn' # nextFn =>
                     /\ handler'.cb[cat] \in {handler.cb[cat], Append(handler.cb[cat], nextFn)}
                     /\ other'.cb[cat] \in {other.cb[cat], Append(other.cb[cat], nextFn)}
         ]_vars
    /\ [][runPc # "building" => handler'.cb = handler.cb]_vars
    /\ [](\A s \in EventTasks : ev[s].cat # "none" =>
            LET list == handler.cb[ev[s].cat] IN
            /\ ev[s].idx <= Len(list) + 1
            /\ ev[s].pc = "calling" => ev[s].idx <= Len(list)
            /\ ev[s].log = CallsOf(list, ev[s].idx - 1) \o
                              (IF ev[s].pc = "calling"
                               THEN <<[op |-> "start", f |-> list[ev[s].idx]]>>
                               ELSE <<>>))
    /\ [][\A s \in EventTasks : (ev[s].pc = "loop" /\ ev'[s].pc = "idle") =>
            ev[s].log = CallsOf(handler.cb[ev[s].cat], Len(handler.cb[ev[s].cat]))
         ]_vars

\* C29 witness: the callback registered first was merged in after the second
\* was added to the builder, and an event has called the second, then the first.
C29_MergedCallbackCalledLast ==
    \E s \in EventTasks :
        /\ ev[s].pc = "loop"
        /\ handler.cb[ev[s].cat] = <<2, 1>>
        /\ ev[s].log = CallsOf(<<2, 1>>, 2)

\* Handler h asks for the intents of every category it has a callback for.
IntentsCover(h) ==
    \A cat \in Categories : h.cb[cat] # <<>> => OnIntents(cat, FALSE) \subseteq h.intents

\* C30: a handler's intents contain the intents of every category it has a
\* callback for (GUILD_BANS for ban callbacks, GUILD_MEMBERS for member
\* callbacks), they never shrink, event_handler leaves the union of both
\* handlers' intents, and the intents Builder::run gives to the client contain
\* the handler's and the builder's.
C30_IntentsRequested ==
    /\ [](IntentsCover(handler) /\ IntentsCover(other))
    /\ [](\A h \in {handler, other} :
            /\ (h.cb["guild_ban_addition"] # <<>> \/ h.cb["guild_ban_removal"] # <<>>) =>
                  "GUILD_BANS" \in h.intents
            /\ (h.cb["guild_member_addition"] # <<>> \/ h.cb["guild_member_removal"] # <<>>
                  \/ h.cb["guild_member_update"] # <<>>) => "GUILD_MEMBERS" \in h.intents)
    /\ [][/\ handler.intents \subseteq handler'.intents
          /\ other' # DefaultHandler => other.intents \subseteq other'.intents
          /\ builderIntents \subseteq builderIntents'
         ]_vars
    /\ [][(runPc' = "building" /\ nextFn' = nextFn /\ builderIntents' = builderIntents
             /\ <<handler, handlerSome, other>>' # <<handler, handlerSome, other>>) =>
            handler'.intents = handler.intents \cup other.intents
         ]_vars
    /\ [](runPc = "running" =>
            /\ builderIntents \subseteq clientIntents
            /\ handlerSome => handler.intents \subseteq clientIntents)

\* C30 witness: a ban callback came in through event_handler, a member callback
\* through the builder's own on_guild_member_update, and the running client was
\* given both intents although the default intents are empty.
C30_BothIntentsRequested ==
    /\ runPc = "running"
    /\ defaultIntents = {}
    /\ handler.cb["guild_ban_addition"] = <<1>>
    /\ handler.cb["guild_member_update"] = <<2>>
    /\ {"GUILD_BANS", "GUILD_MEMBERS"} \subseteq clientIntents

\* C32: when an argument of a registered command fails to parse, whatever its
\* position, the step that finds the failure runs no command function, computes
\* no reply and leaves the cell alone; every run of a command function got one
\* parsed value for each of its parameters.
C32_ParseFailureRunsNothing ==
    /\ [][(connPc = "ctx" /\ connPc' # "ctx"
             /\ ParseArgs(args, FnArgTypes[FnOf(args[1])], 1, <<>>).kind = "ArgParse") =>
            /\ handlerRuns' = handlerRuns
            /\ pendingReply' = pendingReply
            /\ replies' = replies
            /\ value' = value
            /\ connResult'.kind = "ArgParse"
         ]_vars
    /\ [](\A i \in 1..Len(handlerRuns) :
            Len(handlerRuns[i].args) = Len(FnArgTypes[handlerRuns[i].fn]))
    /\ [](connResult.kind = "ArgParse" => Len(handlerRuns) < tokenized)

\* C32 witness: the second argument of d failed to parse after the first had
\* parsed, and d did not run.
C32_SecondArgumentFails ==
    /\ connResult.kind = "ArgParse"
    /\ args = << <<"d">>, <<"1">>, <<"x">> >>
    /\ handlerRuns = <<>>

\* C33: whenever handle_client is about to read a line, last_error is a Shlex
\* error exactly if buf is not empty, and then buf ends with the line break
\* pushed after the line last_error names and its text does not tokenize; a
\* successful tokenization sets last_error to Ok and empties buf; so a Shlex
\* error is returned only after the input ended with such a text pending.
C33_LastErrorTracksBuffer ==
    /\ [](connPc = "reading" =>
            /\ (lastError.kind = "Shlex") = (buf # <<>>)
            /\ (lastError.kind = "Ok") = (buf = <<>>)
            /\ buf # <<>> =>
                 /\ buf[Len(buf)] = "\n"
                 /\ ~ShlexSplit(SubSeq(buf, 1, Len(buf) - 1)).ok
                 /\ Len(buf) > Len(lastError.line)
                 /\ SubSeq(buf, Len(buf) - Len(lastError.line), Len(buf) - 1) = lastError.line)
    /\ [][tokenized' # tokenized => (lastError' = [kind |-> "Ok"] /\ buf' = <<>>)]_vars
    /\ [](connResult.kind = "Shlex" =>
            /\ readOutcome \in {"eof", "reset"}
            /\ connResult = lastError
            /\ buf # <<>>
            /\ ~ShlexSplit(SubSeq(buf, 1, Len(buf) - 1)).ok)

\* C33 witness: two lines left a quote open, the input ended, and the Shlex
\* error of the second line was returned.
C33_EndedInsideQuote ==
    /\ connPc = "returned"
    /\ readOutcome = "eof"
    /\ tokenized = 0
    /\ buf = <<"g", " ", "'", "a", "\n", "g", " ", "a", "\n">>
    /\ connResult = [kind |-> "Shlex", line |-> <<"g", " ", "a">>]

\* handle_client has ctx and has not yet written the reply of the command.
CtxWindow ==
    \/ connPc = "ctx" /\ pc[ConnTask] = "r_hold"
    \/ connPc = "replying"

\* C34: the arguments are parsed and the command function runs only while
\* handle_client holds the read guard; from then until the reply is written
\* handle_client stays a reader of the lock, nobody holds or is granted the
\* write lock, and a write() requested in between stays queued.
C34_ReadHeldUntilReply ==
    /\ [][(handlerRuns' # handlerRuns \/ (connPc = "ctx" /\ connPc' # "ctx")) =>
            /\ pc[ConnTask] = "r_hold"
            /\ ConnTask \in lockReaders
         ]_vars
    /\ [](CtxWindow =>
            /\ ConnTask \in lockReaders
            /\ lockWriter = NoTask
            /\ seen[ConnTask] = value
            /\ \A t \in Accessors : pc[t] \notin {"w_check1", "w_check2", "w_hold"})
    /\ [][CtxWindow =>
            /\ lockWriter' = NoTask
            /\ value' = value
            /\ \A t \in Accessors : pc[t] \in {"w_lock1", "w_lock2"} => pc'[t] = pc[t]
         ]_vars
    /\ [][(connPc = "replying" /\ connPc' # "replying") =>
            (ConnTask \notin lockReaders' /\ (replies' # replies \/ connResult'.kind = "Io"))
         ]_vars

\* C34 witness: the command function has run, the reply is not yet written,
\* and a write() called meanwhile waits in the lock's queue.
C34_WriterWaitsForReply ==
    /\ connPc = "replying"
    /\ \E t \in SharerProcs :
          /\ pc[t] = "w_lock1"
          /\ lockQueue # <<>>
          /\ Head(lockQueue).task = t

\* C36: a generated client function returns Ok(()) exactly when the line its
\* send received is the command's name with - for _; any other line, such as
\* the message of a failed command function, comes back as WrongReply with that
\* line and the name; an error of send comes back as it is.
C36_ClientFnClassifiesReply ==
    fnResult.kind # "Running" =>
        /\ sendPc = "done"
        /\ LET name == sendCmd[1]
               line == FirstLine(Concat(replies))
           IN  /\ fnResult.kind \in {"OkUnit", "WrongReply", "Io", "MissingNewline"}
               /\ fnResult.kind = "OkUnit" <=>
                     (sendResult.kind = "Ok" /\ sendResult.reply = name)
               /\ fnResult.kind = "OkUnit" => line = name \o <<"\n">>
               /\ (sendResult.kind = "Ok" /\ sendResult.reply # name) =>
                     /\ fnResult = [kind |-> "WrongReply", received |-> sendResult.reply, expected |-> name]
                     /\ line = fnResult.received \o <<"\n">>
               /\ sendResult.kind # "Ok" => fnResult = sendResult
               /\ (handlerRuns # <<>> /\ ~handlerRuns[1].res.ok /\ sendResult.kind = "Ok") =>
                     fnResult.kind = "WrongReply"

\* C36 witness: s_n failed with the message e, and the client function s_n
\* returned WrongReply with it.
C36_FailureMessageIsWrongReply ==
    /\ fnResult = [kind |-> "WrongReply", received |-> <<"e">>, expected |-> <<"s", "-", "n">>]
    /\ handlerRuns # <<>>
    /\ ~handlerRuns[1].res.ok

C35_NotifierWaitsForCell ==
    /\ [][notified' # notified =>
            /\ listenPc \in Notifying
            /\ state # "Pending"
            /\ pc[ConnTask] = "r_hold"
            /\ ConnTask \in lockReaders
         ]_vars
    /\ [][(listenPc \in Notifying /\ state = "Pending") =>
            /\ listenPc' = listenPc
            /\ accepted' = accepted
            /\ notified' = notified
            /\ connPc' = connPc
         ]_vars
    /\ [][(listenPc \in Notifying /\ listenPc' \notin Notifying) => state = "Ready"]_vars
    /\ [][accepted' # accepted => listenPc = "accepting"]_vars

\* C35 witness: the connection failed with UnknownCommand while the cell was
\* Pending, and the notifier waits in read() for the producer.
C35_NotifierWaitsOnPendingCell ==
    /\ listenPc = "notifying_client"
    /\ connResult.kind = "UnknownCommand"
    /\ state = "Pending"
    /\ pc[ConnTask] = "r_recv"
    /\ notified = <<>>
    /\ accepted < MaxConns

\* The last callback run called notify_start.
NotifyStartCalled(run) == \E i \in 1..Len(run.calls) : run.calls[i].method = "notify_start"

Ordered(users) ==
    \A i \in 1..(Len(users) - 1) :
        \/ NameRank(users[i].name) < NameRank(users[i + 1].name)
        \/ /\ users[i].name = users[i + 1].name
           /\ users[i].discriminator < users[i + 1].discriminator

\* The channels whose list has a user with the id.
ChannelsOf(chan_map, id) ==
    {c \in DOMAIN chan_map : \E i \in 1..Len(chan_map[c]) : chan_map[c][i].id = id}

\* What C39 says of the map after an update of user id to channel_id.
AfterUpdate(chan_map, id, channel_id) ==
    /\ ChannelsOf(chan_map, id) = IF channel_id = NoChannel THEN {} ELSE {channel_id}
    /\ \A c \in DOMAIN chan_map :
          /\ chan_map[c] # <<>>
          /\ Ordered(chan_map[c])
          /\ Cardinality({i \in 1..Len(chan_map[c]) : chan_map[c][i].id = id}) <= 1

====
